---- MODULE Spec2Model ----
(***************************************************************************)
(* Chat Request Gateway of the Portfolio Chatbot backend: the monthly      *)
(* usage quota (services/usage.ts), the rate limiter, token gate and bot   *)
(* verifier middleware, the session store and the POST /chat handler.      *)
(* All durable state lives in the Redis store; every await on a store call *)
(* is a point where other requests may run.                                *)
(*                                                                         *)
(* Sources: routes/chat.ts is src/unnamed/part_011, middleware/rateLimit.ts*)
(* src/unnamed/part_019, middleware/apiToken.ts src/unnamed/part_018,      *)
(* services/cache.ts src/unnamed/part_016; the bot verifier                *)
(* (turnstileMiddleware) is lines 494-558 of src/apps/backend/src/index.ts.*)
(***************************************************************************)
EXTENDS Integers, Sequences, FiniteSets, TLC

VARIABLES
    now,          \* the wall clock: [y, m, d, tod] in local time
    ticks,        \* number of clock advances so far
    production,   \* process.env.NODE_ENV === 'production'
    faults,       \* whether store calls and the upstream model may fail in this run
    budget,       \* number of requests the run still accepts
    usageCount,   \* Redis key chatbot:usage:count
    resetAt,      \* Redis key chatbot:usage:reset_at: [set, y, m, d, tod]
    usageHist,    \* history of the usage keys: [done, from, to, zeroWrites, incsSince]
    session,      \* Redis keys chatbot:session:<id>: Sids -> session record
    served,       \* history: Sids -> number of turns served on the session
    cache,        \* Redis keys chatbot:cache:<hash>: Questions -> text
    proc,         \* the requests being handled: Procs -> request record
    secret,       \* whether config.TURNSTILE_SECRET_KEY is configured
    bucket,       \* Redis keys chatbot:ratelimit:<ip>: Ips -> [present, count, ttl]
    gate,         \* the requests in the middleware chain: Procs -> record
    txt,          \* two questions put to the cache service: [pc, x, y, nx, ...]
    tool,         \* the tool calls of one response: [pc, call, rest, acc, ...]
    inbox,        \* the questions that clients ask in this run
    client        \* the chat widget in the browser: [pc, token, sent, ...]

envVars == <<now, ticks, production, faults>>

usageVars == <<usageCount, resetAt, usageHist>>

sessionVars == <<session, served>>

gateVars == <<secret, bucket, gate>>

unitVars == <<txt, tool, inbox, client>>

vars ==
    <<now, ticks, production, faults, budget, usageCount, resetAt,
      usageHist, session, served, cache, proc, secret, bucket, gate,
      txt, tool, inbox, client>>

(***************************************************************************)
(* Calendar arithmetic of the JavaScript Date object (local time).         *)
(***************************************************************************)

\* the years the clock ranges over: a common year and a leap year
Years == {2023, 2024}

IsLeap(y) == (y % 4 = 0 /\ y % 100 # 0) \/ y % 400 = 0

DaysInMonth(y, m) ==
    IF m = 2 THEN (IF IsLeap(y) THEN 29 ELSE 28)
    ELSE IF m \in {4, 6, 9, 11} THEN 30 ELSE 31

\* Date.prototype.setMonth keeps the day of the month and lets MakeDay
\* normalise: a month past December carries into the year, a day past the
\* end of the month carries into the following month(s).
RECURSIVE MakeDay(_, _, _)
MakeDay(y, m, d) ==
    IF m > 12 THEN MakeDay(y + 1, m - 12, d)
    ELSE IF d > DaysInMonth(y, m) THEN MakeDay(y, m + 1, d - DaysInMonth(y, m))
    ELSE [y |-> y, m |-> m, d |-> d]

\* nextReset.setMonth(nextReset.getMonth() + 1)
SetMonthPlusOne(t) == MakeDay(t.y, t.m + 1, t.d)

\* usage.ts lines 36-39: new Date(); setMonth(+1); setDate(1); setHours(0,0,0,0)
NextReset(t) ==
    LET s == SetMonthPlusOne(t)
    IN  [y |-> s.y, m |-> s.m, d |-> 1, tod |-> 0]

\* a < b on instants
Before(a, b) ==
    \/ a.y < b.y
    \/ a.y = b.y /\ a.m < b.m
    \/ a.y = b.y /\ a.m = b.m /\ a.d < b.d
    \/ a.y = b.y /\ a.m = b.m /\ a.d = b.d /\ a.tod < b.tod

Instant(t) == [y |-> t.y, m |-> t.m, d |-> t.d, tod |-> t.tod]

\* tod 0 is 00:00:00.000 exactly, tod 1 any later instant of the day
AllDates ==
    {[y |-> y, m |-> m, d |-> d, tod |-> td] :
        y \in Years, m \in 1..12, d \in 1..31, td \in 0..1}

Clock == {t \in AllDates : t.d <= DaysInMonth(t.y, t.m)}

NextDay(t) ==
    LET s == MakeDay(t.y, t.m, t.d + 1)
    IN  [y |-> s.y, m |-> s.m, d |-> s.d, tod |-> 0]

Unset == [set |-> FALSE, y |-> 0, m |-> 0, d |-> 0, tod |-> 0]

Stored(t) == [set |-> TRUE, y |-> t.y, m |-> t.m, d |-> t.d, tod |-> t.tod]

\* the first instant of the calendar month that follows the month of t
FirstOfFollowingMonth(t) ==
    IF t.m = 12 THEN [y |-> t.y + 1, m |-> 1, d |-> 1, tod |-> 0]
    ELSE [y |-> t.y, m |-> t.m + 1, d |-> 1, tod |-> 0]

\* !resetAt || new Date(resetAt) < new Date()
ResetDue(r, t) == ~r.set \/ Before(r, t)


(***************************************************************************)
(* Requests.  Each request is handled by its own task; proc[r] holds the   *)
(* task's position (pc) and its local variables.                           *)
(***************************************************************************)

\* the tasks that may be in flight at once
Procs == {1, 2}

\* number of clock advances in one run
MaxTicks == 1

\* config.MAX_MONTHLY_CONVERSATIONS
MAX_MONTHLY_CONVERSATIONS == 2

\* services/session.ts line 6
MAX_MESSAGES_PER_SESSION == 30

\* the session IDs the clients send (0 stands for a request without one)
Sids == {1}

\* the question asked in the runs that are not about the message itself
PlainQuestion == 1

\* the cache keys: one per normalized question
Questions == 1..7

\* The message of each question.  A message is a sequence of pieces: the
\* letter a, the space, an HTML tag, a profane word, the start of an eval
\* call, "zzz" for eleven letters z in a row, "ABC" for a word of 21
\* capitals and "www" for a word of 101 letters.
Message(q) ==
    CASE q = 1 -> <<"a">>
      [] q = 2 -> <<"<b>">>
      [] q = 3 -> <<"a", " ", "zzz">>
      [] q = 4 -> <<"www", " ", "a">>
      [] q = 5 -> <<"ABC">>
      [] q = 6 -> <<"eval(", "a">>
      [] q = 7 -> <<"a", " ", "damn">>

\* the number of characters of a piece
PieceLength(c) ==
    CASE c = "<b>" -> 3
      [] c = "damn" -> 4
      [] c = "eval(" -> 5
      [] c = "zzz" -> 11
      [] c = "ABC" -> 21
      [] c = "www" -> 101
      [] OTHER -> 1

RECURSIVE MessageLength(_)
MessageLength(m) ==
    IF m = <<>> THEN 0 ELSE PieceLength(Head(m)) + MessageLength(Tail(m))

\* chat.ts line 22: the longest message
MessageMax == 1000

\* chat.ts lines 21-24: message is a string of 1 to 1000 characters
ChatRequestSchema(m) == MessageLength(m) >= 1 /\ MessageLength(m) <= MessageMax

\* the text fragments the upstream model yields
Fragments == {<<"a">>}

NoInstant == [y |-> 0, m |-> 0, d |-> 0, tod |-> 0]

NoSession ==
    [present |-> FALSE, messageCount |-> 0, createdAt |-> 0,
     lastActivityAt |-> 0, ttlSetAt |-> 0]

IdleProc ==
    [kind |-> "none", pc |-> "idle", body |-> "none", sid |-> 0, q |-> 0,
     hit |-> FALSE, sess |-> NoSession,
     resetFrom |-> NoInstant, nextReset |-> NoInstant,
     seen |-> -1, status |-> 0, reply |-> "none", events |-> <<>>,
     full |-> <<>>, stream |-> <<>>, calls |-> 0, incs |-> 0, turn |-> FALSE,
     gone |-> FALSE, log |-> <<>>, upstream |-> <<>>]

\* the outcomes of one call to the store or to the upstream model
Outcomes == IF faults THEN {"ok", "fail"} ELSE {"ok"}

Set(r, f) == [proc EXCEPT ![r] = f]

Event(e, d) == [event |-> e, data |-> d]

Emit(p, e, d) == [p EXCEPT !.events = Append(@, Event(e, d))]

UsagePcs == {"u_get_reset", "u_set_count", "u_set_reset", "u_get_count"}

\* chat.ts: an exception before streamSSE is caught by the outer catch
\* (lines 178-186, status 500); inside the model stream by the inner catch
\* (lines 168-176, an error event).
\* a catch block that closes the stream with done after the error event
ChatThrowThenDone(p) ==
    IF p.status = 200
    THEN [Emit(Emit(p, "error", <<>>), "done", <<>>) EXCEPT !.pc = "done"]
    ELSE [p EXCEPT !.pc = "done", !.status = 500]

\* a catch block that answers 500 whether or not the stream is open
ChatThrowJson(p) == [p EXCEPT !.pc = "done", !.status = 500]

\* a catch block that logs the error and writes nothing
ChatThrowSilent(p) ==
    IF p.status = 200
    THEN [p EXCEPT !.pc = "done"]
    ELSE [p EXCEPT !.pc = "done", !.status = 500]

ChatThrow(p) ==
    IF p.status = 200
    THEN [Emit(p, "error", <<>>) EXCEPT !.pc = "done"]
    ELSE [p EXCEPT !.pc = "done", !.status = 500]

\* chat.ts lines 164-167: the done event that ends a served turn
ChatDone(p) == [Emit(p, "done", <<>>) EXCEPT !.pc = "done", !.turn = TRUE]

(***************************************************************************)
(* usageService (services/usage.ts)                                        *)
(***************************************************************************)

\* A store call of the usage service threw.  GET /status catches it and
\* answers available = !isProduction (status.ts 29-34) unless the deadline
\* has answered already; POST /chat answers 500.
UsageThrow(p) ==
    IF p.kind = "status"
    THEN [p EXCEPT !.pc = "done",
                   !.reply = IF p.reply # "none" THEN p.reply
                             ELSE IF production THEN "unavailable"
                             ELSE "available"]
    ELSE ChatThrow(p)

\* isWithinLimit returned w.  GET /status answers it (status.ts 27-28);
\* POST /chat answers 429 or opens the model stream (chat.ts 111-124).
UsageReturn(p, w) ==
    IF p.kind = "status"
    THEN [p EXCEPT !.pc = "done",
                   !.reply = IF p.reply # "none" THEN p.reply
                             ELSE IF w THEN "available" ELSE "unavailable"]
    ELSE IF w THEN [p EXCEPT !.pc = "ai_call", !.status = 200]
    ELSE [p EXCEPT !.pc = "done", !.status = 429]

\* checkAndResetMonthly, lines 34-39: read reset_at; when it is unset or in
\* the past compute nextReset from the clock.
UsageGetReset(r) ==
    /\ proc[r].pc = "u_get_reset"
    /\ \E o \in Outcomes :
         proc' = Set(r,
            IF o = "fail" THEN UsageThrow(proc[r])
            ELSE IF ResetDue(resetAt, now)
            THEN [proc[r] EXCEPT !.pc = "u_set_count",
                                 !.resetFrom = Instant(now),
                                 !.nextReset = NextReset(now)]
            ELSE [proc[r] EXCEPT !.pc = "u_get_count"])
    /\ UNCHANGED <<unitVars, gateVars, envVars, budget, usageVars, sessionVars, cache>>

\* checkAndResetMonthly, line 41: redis.set(USAGE_KEY, 0)
UsageSetCount(r) ==
    /\ proc[r].pc = "u_set_count"
    /\ \E o \in Outcomes :
         IF o = "fail"
         THEN /\ proc' = Set(r, UsageThrow(proc[r]))
              /\ UNCHANGED usageVars
         ELSE /\ proc' = Set(r, [proc[r] EXCEPT !.pc = "u_set_reset"])
              /\ usageCount' = 0
              /\ usageHist' = [usageHist EXCEPT
                      !.zeroWrites = @ + 1,
                      !.incsSince = IF usageHist.zeroWrites = 0 THEN 0 ELSE @]
              /\ UNCHANGED resetAt
    /\ UNCHANGED <<unitVars, gateVars, envVars, budget, sessionVars, cache>>

\* checkAndResetMonthly, line 42: redis.set(USAGE_RESET_KEY, nextReset)
UsageSetReset(r) ==
    /\ proc[r].pc = "u_set_reset"
    /\ \E o \in Outcomes :
         IF o = "fail"
         THEN /\ proc' = Set(r, UsageThrow(proc[r]))
              /\ UNCHANGED usageVars
         ELSE /\ proc' = Set(r, [proc[r] EXCEPT !.pc = "u_get_count"])
              /\ resetAt' = Stored(proc[r].nextReset)
              /\ usageHist' = [usageHist EXCEPT !.done = TRUE,
                                                !.from = proc[r].resetFrom,
                                                !.to = proc[r].nextReset]
              /\ UNCHANGED usageCount
    /\ UNCHANGED <<unitVars, gateVars, envVars, budget, sessionVars, cache>>

\* isWithinLimit admits a request at the limit too
WithinLimitInclusive(c) == c <= MAX_MONTHLY_CONVERSATIONS

\* isWithinLimit, line 16: count < config.MAX_MONTHLY_CONVERSATIONS
WithinLimit(c) == c < MAX_MONTHLY_CONVERSATIONS

\* isWithinLimit, lines 15-16: read the count and compare it with the limit
UsageGetCount(r) ==
    /\ proc[r].pc = "u_get_count"
    /\ \E o \in Outcomes :
         proc' = Set(r,
            IF o = "fail" THEN UsageThrow(proc[r])
            ELSE UsageReturn([proc[r] EXCEPT !.seen = usageCount],
                             WithinLimit(usageCount)))
    /\ UNCHANGED <<unitVars, gateVars, envVars, budget, usageVars, sessionVars, cache>>

\* a handler that sends done right after the usage increment
AfterUsageIncrementDone(p) == ChatDone(p)

\* chat.ts lines 155-161: after the increment the handler updates the
\* session, or sends done when the request names no session
AfterUsageIncrement(p) ==
    IF p.sid # 0 THEN [p EXCEPT !.pc = "i_get"] ELSE ChatDone(p)

\* increment, line 20: redis.incr(USAGE_KEY), called at chat.ts line 156
UsageIncrement(r) ==
    /\ proc[r].pc = "u_incr"
    /\ \E o \in Outcomes :
         IF o = "fail"
         THEN /\ proc' = Set(r, ChatThrow(proc[r]))
              /\ UNCHANGED <<usageVars, served>>
         ELSE /\ proc' = Set(r, AfterUsageIncrement(
                                    [proc[r] EXCEPT !.incs = @ + 1,
                                        !.log = Append(@, "usage")]))
              /\ usageCount' = usageCount + 1
              /\ usageHist' = [usageHist EXCEPT !.incsSince = @ + 1]
              /\ UNCHANGED <<resetAt, served>>
    /\ UNCHANGED <<unitVars, gateVars, envVars, budget, session, cache>>

(***************************************************************************)
(* sessionService (services/session.ts)                                    *)
(***************************************************************************)

\* createSession, lines 22-28: the record of a new session
NewSession ==
    [present |-> TRUE, messageCount |-> 0, createdAt |-> ticks,
     lastActivityAt |-> ticks, ttlSetAt |-> 0]

\* incrementMessageCount, lines 45-46
Bumped(s) ==
    [s EXCEPT !.messageCount = @ + 1, !.lastActivityAt = ticks]

\* redis.set(key, session, { ex: SESSION_TTL }): the write restarts the TTL
Written(s) == [s EXCEPT !.ttlSetAt = ticks]

\* hasExceededLimit, lines 57-63
HasExceededLimit(s) ==
    s.present /\ s.messageCount >= MAX_MESSAGES_PER_SESSION

\* a session check that counts the attempt it rejects
SessionCheckCounting(r) ==
    /\ proc[r].pc = "s_check"
    /\ IF HasExceededLimit(session[proc[r].sid])
       THEN /\ proc' = Set(r, [Emit(Emit(proc[r], "session_limit", <<>>),
                                    "done", <<>>)
                                  EXCEPT !.pc = "done", !.status = 200])
            /\ session' = [session EXCEPT ![proc[r].sid] =
                              [@ EXCEPT !.messageCount = @ + 1]]
       ELSE /\ proc' = Set(r, [proc[r] EXCEPT !.pc = "c_get"])
            /\ UNCHANGED session
    /\ UNCHANGED <<unitVars, gateVars, envVars, budget, usageVars, served, cache>>

\* chat.ts lines 59-79: the session check; an exhausted session is answered
\* with session_limit and done
SessionCheck(r) ==
    /\ proc[r].pc = "s_check"
    /\ \E o \in Outcomes :
         proc' = Set(r,
            IF o = "fail" THEN ChatThrow(proc[r])
            ELSE IF HasExceededLimit(session[proc[r].sid])
            THEN [Emit(Emit(proc[r], "session_limit", <<>>), "done", <<>>)
                     EXCEPT !.pc = "done", !.status = 200]
            ELSE [proc[r] EXCEPT !.pc = "c_get"])
    /\ UNCHANGED <<unitVars, gateVars, envVars, budget, usageVars, sessionVars, cache>>

\* incrementMessageCount, lines 39-46: read the record; a missing one is
\* created first (count 0), an existing one is incremented locally
IncrementGet(r) ==
    /\ proc[r].pc = "i_get"
    /\ \E o \in Outcomes :
         proc' = Set(r,
            IF o = "fail" THEN ChatThrow(proc[r])
            ELSE IF session[proc[r].sid].present
            THEN [proc[r] EXCEPT !.pc = "i_set",
                                 !.sess = Bumped(session[proc[r].sid])]
            ELSE [proc[r] EXCEPT !.pc = "i_create", !.sess = NewSession])
    /\ UNCHANGED <<unitVars, gateVars, envVars, budget, usageVars, sessionVars, cache>>

\* createSession, lines 22-31: write the new record, stamped with the
\* time of the call; then lines 45-46
IncrementCreate(r) ==
    /\ proc[r].pc = "i_create"
    /\ \E o \in Outcomes :
         IF o = "fail"
         THEN /\ proc' = Set(r, ChatThrow(proc[r]))
              /\ UNCHANGED session
         ELSE /\ session' = [session EXCEPT ![proc[r].sid] =
                                              Written(NewSession)]
              /\ proc' = Set(r, [proc[r] EXCEPT !.pc = "i_set",
                                                !.sess = Bumped(NewSession)])
    /\ UNCHANGED <<unitVars, gateVars, envVars, budget, usageVars, served, cache>>

\* chat.ts lines 86-91 and 159-167: after the session update a cache hit is
\* streamed, a model turn ends with done
AfterIncrement(p) ==
    IF p.hit THEN [p EXCEPT !.pc = "h_stream"] ELSE ChatDone(p)

\* incrementMessageCount, line 49: write the incremented record back
IncrementSet(r) ==
    /\ proc[r].pc = "i_set"
    /\ \E o \in Outcomes :
         IF o = "fail"
         THEN /\ proc' = Set(r, ChatThrow(proc[r]))
              /\ UNCHANGED sessionVars
         ELSE /\ session' = [session EXCEPT ![proc[r].sid] =
                                              Written(proc[r].sess)]
              /\ proc' = Set(r, AfterIncrement(
                                    [proc[r] EXCEPT !.log = Append(@, "session")]))
              /\ served' = IF proc[r].hit THEN served
                            ELSE [served EXCEPT ![proc[r].sid] = @ + 1]
    /\ UNCHANGED <<unitVars, gateVars, envVars, budget, usageVars, cache>>

\* SESSION_TTL of services/session.ts (src/unnamed/part_015 line 5), twenty
\* minutes, in ticks of ten minutes
SESSION_TTL == 2

\* MAX_SESSION_AGE_MS (part_015 line 7), twenty minutes, in the same ticks
MAX_SESSION_AGE_MS == 2

\* ticks of the session clock in one run
MaxSessionTicks == 3

\* a key whose time to live has ended is deleted by the store
Expired(s, t) == s.present /\ t - s.ttlSetAt >= SESSION_TTL

\* ten minutes pass
SessionClock ==
    /\ ticks < MaxSessionTicks
    /\ ticks' = ticks + 1
    /\ session' = [s \in Sids |-> IF Expired(session[s], ticks + 1)
                                   THEN NoSession ELSE session[s]]
    /\ UNCHANGED <<unitVars, gateVars, now, production, faults, budget,
                   usageVars, served, cache, proc>>

(***************************************************************************)
(* cacheService and POST /api/chat (routes/chat.ts)                        *)
(***************************************************************************)

Bodies == {"unparseable", "invalid", "valid"}

\* lines 42-60: parse and validate the body.  c.req.json() throws on a body
\* that is no JSON (500), the schema rejects a bad message (400); a valid
\* body carries the message of one of the questions asked in the run.  The
\* tasks are interchangeable: a new request takes the first idle one.
ChatStart(r) ==
    /\ proc[r].pc = "idle"
    /\ \A t \in Procs : t < r => proc[t].pc # "idle"
    /\ budget > 0
    /\ budget' = budget - 1
    /\ \E b \in Bodies, s \in {0} \cup Sids, q \in inbox :
         proc' = Set(r,
            IF b = "unparseable"
            THEN [IdleProc EXCEPT !.kind = "chat", !.body = b,
                                  !.pc = "done", !.status = 500]
            ELSE IF b = "invalid" \/ ~ChatRequestSchema(Message(q))
            THEN [IdleProc EXCEPT !.kind = "chat", !.body = b,
                                  !.pc = "done", !.status = 400]
            ELSE [IdleProc EXCEPT !.kind = "chat", !.body = b,
                                  !.sid = s, !.q = q,
                                  !.pc = IF s # 0 THEN "s_check" ELSE "c_get"])
    /\ UNCHANGED <<unitVars, gateVars, envVars, usageVars, sessionVars, cache>>

\* a cache hit that is counted against the monthly quota
AfterCacheHitCounted(p) == [p EXCEPT !.pc = "u_incr"]

\* a cache hit that is put to the quota check like a miss
AfterCacheHitQuota(p) == [p EXCEPT !.pc = "u_get_reset"]

\* a cache hit that updates a session whether or not the request names one
AfterCacheHitAlways(p) == [p EXCEPT !.pc = "i_get"]

\* a cache hit that leaves the session alone
AfterCacheHitNoSession(p) == [p EXCEPT !.pc = "h_stream"]

\* lines 84-91: on a hit the session is updated first when the request
\* names one
AfterCacheHit(p) ==
    [p EXCEPT !.pc = IF p.sid # 0 THEN "i_get" ELSE "h_stream"]

\* lines 82-84 and 111: cacheService.get; a miss goes on to the quota check
CacheGet(r) ==
    /\ proc[r].pc = "c_get"
    /\ \E o \in Outcomes :
         proc' = Set(r,
            IF o = "fail" THEN ChatThrow(proc[r])
            ELSE IF cache[proc[r].q] # <<>>
            THEN AfterCacheHit([proc[r] EXCEPT !.hit = TRUE,
                                               !.full = cache[proc[r].q]])
            ELSE [proc[r] EXCEPT !.pc = "u_get_reset"])
    /\ UNCHANGED <<unitVars, gateVars, envVars, budget, usageVars, sessionVars, cache>>

\* String.prototype.split(' '): the pieces of t between spaces
RECURSIVE SplitSpace(_, _)
SplitSpace(t, acc) ==
    IF t = <<>> THEN <<acc>>
    ELSE IF Head(t) = " " THEN <<acc>> \o SplitSpace(Tail(t), <<>>)
    ELSE SplitSpace(Tail(t), Append(acc, Head(t)))

\* lines 93-101: one message event per word, the word followed by a space
RECURSIVE EmitWords(_, _)
EmitWords(p, ws) ==
    IF ws = <<>> THEN p
    ELSE EmitWords(Emit(p, "message", Append(Head(ws), " ")), Tail(ws))

\* lines 91-107: stream the cached response, then done
HitStream(r) ==
    /\ proc[r].pc = "h_stream"
    /\ proc' = Set(r, ChatDone(EmitWords([proc[r] EXCEPT !.status = 200],
                                         SplitSpace(proc[r].full, <<>>))))
    /\ served' = IF proc[r].sid = 0 THEN served
                  ELSE [served EXCEPT ![proc[r].sid] = @ + 1]
    /\ UNCHANGED <<unitVars, gateVars, envVars, budget, usageVars, session, cache>>

\* the chunk streams the upstream model yields: nothing, a tool call, a
\* chunk that is neither, text followed by a tool call, two chunks of text
Replies ==
    {<<>>, <<"tool_call">>, <<"other">>,
     <<"content", "tool_call">>, <<"content", "content">>}

ChatMessage(role, content) == [role |-> role, content |-> content]

\* chat.ts line 129: the messages array holds the current message only
CurrentTurn(p) == <<ChatMessage("user", Message(p.q))>>

\* an upstream input without the system prompt
MessagesAlone(messages) == messages

\* ai.ts lines 27-33: the system prompt followed by the messages
MessagesWithSystem(messages) ==
    <<ChatMessage("system", "SYSTEM_PROMPT")>> \o messages

\* line 131 and ai.ts line 35: the upstream call is made
AiCall(r) ==
    /\ proc[r].pc = "ai_call"
    /\ \E o \in Outcomes, rep \in Replies :
         LET p == [proc[r] EXCEPT
                      !.calls = @ + 1,
                      !.upstream = MessagesWithSystem(CurrentTurn(proc[r]))]
         IN  proc' = Set(r,
                IF o = "fail" THEN ChatThrow(p)
                ELSE [p EXCEPT !.pc = "ai_stream", !.stream = rep])
    /\ UNCHANGED <<unitVars, gateVars, envVars, budget, usageVars, sessionVars, cache>>

\* lines 134-148: one chunk of the upstream stream: text is appended to
\* fullResponse and sent as message, a tool call is sent as tool_call
AiChunk(r) ==
    /\ proc[r].pc = "ai_stream"
    /\ proc[r].stream # <<>>
    /\ \E f \in Fragments :
         LET k == Head(proc[r].stream)
             p == [proc[r] EXCEPT !.stream = Tail(@)]
         IN  proc' = Set(r,
                IF k = "content"
                THEN [Emit(p, "message", f) EXCEPT !.full = @ \o f]
                ELSE IF k = "tool_call"
                THEN Emit(p, "tool_call", <<>>)
                ELSE p)
    /\ UNCHANGED <<unitVars, gateVars, envVars, budget, usageVars, sessionVars, cache>>

\* lines 124-148: the client closes the connection while the handler is in
\* the for await loop.  The handler registers no abort callback and never
\* reads the state of the stream, so nothing in it depends on gone.
Disconnect(r) ==
    /\ proc[r].pc = "ai_stream"
    /\ ~proc[r].gone
    /\ proc' = Set(r, [proc[r] EXCEPT !.gone = TRUE])
    /\ UNCHANGED <<unitVars, gateVars, envVars, budget, usageVars, sessionVars, cache>>

\* a handler that caches whatever the buffer holds
AfterStreamAlways(p) == [p EXCEPT !.pc = "c_set"]

\* lines 150-156: a response with text is cached, one without is not
AfterStream(p) ==
    [p EXCEPT !.pc = IF p.full # <<>> THEN "c_set" ELSE "u_incr"]

\* lines 134 and 168: the upstream stream ends after its last chunk, or
\* breaks off at any point
AiEnd(r) ==
    /\ proc[r].pc = "ai_stream"
    /\ \E o \in Outcomes :
         /\ o = "ok" => proc[r].stream = <<>>
         /\ proc' = Set(r,
               IF o = "fail"
               THEN ChatThrow([proc[r] EXCEPT !.stream = <<>>])
               ELSE AfterStream(proc[r]))
    /\ UNCHANGED <<unitVars, gateVars, envVars, budget, usageVars, sessionVars, cache>>

\* line 152: cacheService.set(message, fullResponse)
CacheSet(r) ==
    /\ proc[r].pc = "c_set"
    /\ \E o \in Outcomes :
         IF o = "fail"
         THEN /\ proc' = Set(r, ChatThrow(proc[r]))
              /\ UNCHANGED cache
         ELSE /\ cache' = [cache EXCEPT ![proc[r].q] = proc[r].full]
              /\ proc' = Set(r, [proc[r] EXCEPT !.pc = "u_incr",
                                                !.log = Append(@, "cache")])
    /\ UNCHANGED <<unitVars, gateVars, envVars, budget, usageVars, sessionVars>>

(***************************************************************************)
(* GET /api/status (routes/status.ts)                                      *)
(***************************************************************************)

\* line 27: the handler calls isWithinLimit under a 3 s deadline
StatusStart(r) ==
    /\ proc[r].pc = "idle"
    /\ budget > 0
    /\ budget' = budget - 1
    /\ proc' = Set(r, [IdleProc EXCEPT !.kind = "status", !.pc = "u_get_reset"])
    /\ UNCHANGED <<unitVars, gateVars, envVars, usageVars, sessionVars, cache>>

\* a deadline that answers available in every environment
StatusTimeoutAvailable(r) ==
    /\ proc[r].kind = "status"
    /\ proc[r].pc \in UsagePcs
    /\ proc[r].reply = "none"
    /\ proc' = Set(r, [proc[r] EXCEPT !.reply = "available"])
    /\ UNCHANGED <<unitVars, gateVars, envVars, budget, usageVars, sessionVars, cache>>

\* lines 11-18 and 29-34: the deadline passes before isWithinLimit settles;
\* the handler answers from the catch block while the store calls go on
StatusTimeout(r) ==
    /\ proc[r].kind = "status"
    /\ proc[r].pc \in UsagePcs
    /\ proc[r].reply = "none"
    /\ proc' = Set(r, [proc[r] EXCEPT !.reply =
                          IF production THEN "unavailable" ELSE "available"])
    /\ UNCHANGED <<unitVars, gateVars, envVars, budget, usageVars, sessionVars, cache>>

\* the response is complete and the task is gone
Retire(r) ==
    /\ proc[r].pc = "done"
    /\ proc' = Set(r, IdleProc)
    /\ UNCHANGED <<unitVars, gateVars, envVars, budget, usageVars, sessionVars, cache>>

(***************************************************************************)
(* The clock                                                               *)
(***************************************************************************)

\* a later instant of the same day
TickInstant ==
    /\ ticks < MaxTicks
    /\ now.tod = 0
    /\ now' = [now EXCEPT !.tod = 1]
    /\ ticks' = ticks + 1
    /\ UNCHANGED <<unitVars, gateVars, production, faults, budget, usageVars, sessionVars,
                   cache, proc>>

\* midnight of the next day
TickDay ==
    /\ ticks < MaxTicks
    /\ NextDay(now) \in Clock
    /\ now' = NextDay(now)
    /\ ticks' = ticks + 1
    /\ UNCHANGED <<unitVars, gateVars, production, faults, budget, usageVars, sessionVars,
                   cache, proc>>

(***************************************************************************)
(* The middleware chain of /api/chat (routes/chat.ts lines 16-18):         *)
(* rateLimitMiddleware, apiTokenMiddleware, turnstileMiddleware.           *)
(***************************************************************************)

\* config.RATE_LIMIT_REQUESTS
RATE_LIMIT_REQUESTS == 2

\* Math.floor(config.RATE_LIMIT_WINDOW_MS / 1000)
WindowSeconds == 2

\* the client addresses getClientIp yields
Ips == {"a"}

NoBucket == [present |-> FALSE, count |-> 0, ttl |-> -2]

\* a request header: absent, or present with a value (a string of
\* characters)
Header(v) == [present |-> TRUE, value |-> v]

Absent == [present |-> FALSE, value |-> <<>>]

\* the values of CF-Connecting-IP, X-Forwarded-For and X-Real-IP
NoHeaders == [cf |-> Absent, xff |-> Absent, xr |-> Absent]

IdleGate ==
    [pc |-> "idle", ip |-> "none", atLimit |-> FALSE, read |-> -1,
     failed |-> FALSE, wrote |-> FALSE, nexts |-> 0, remaining |-> 0,
     token |-> "unread", botToken |-> "unread", skipped |-> FALSE,
     verifyCalls |-> 0, verdict |-> "none", status |-> 0,
     headers |-> NoHeaders, key |-> <<>>]

SetGate(r, g) == [gate EXCEPT ![r] = g]

\* the request enters the chain
GateStart(r) ==
    /\ gate[r].pc = "idle"
    /\ budget > 0
    /\ budget' = budget - 1
    /\ \E ip \in Ips :
         gate' = SetGate(r, [IdleGate EXCEPT !.pc = "rl_get", !.ip = ip])
    /\ UNCHANGED <<unitVars, envVars, usageVars, sessionVars, cache, proc, secret, bucket>>

Tokens == {"none", "bad", "good"}

BotTokens == {"none", "some"}

\* a token gate that only asks for some token
TokenPresent(t) == t # "none"

\* apiToken.ts lines 16 and 26: the header is there and equals the secret
TokenOk(t) == t = "good"

\* apiToken.ts lines 13-37: a request without the right X-API-Token is
\* answered 401, another is passed on
TokenGate(g, t) ==
    IF TokenOk(t)
    THEN [g EXCEPT !.token = t, !.pc = "bot"]
    ELSE [g EXCEPT !.token = t, !.pc = "done", !.status = 401]

\* index.ts line 508 (turnstileMiddleware): verification is in force in production or when a
\* secret key is configured
VerificationInForce == production \/ secret

\* index.ts lines 494-512: a missing X-Turnstile-Token is answered 401;
\* out of force the request is passed on; else the token is sent to the
\* verification endpoint
BotGate(g, t) ==
    IF t = "none"
    THEN [g EXCEPT !.botToken = t, !.pc = "done", !.status = 401]
    ELSE IF ~VerificationInForce
    THEN [g EXCEPT !.botToken = t, !.skipped = TRUE, !.pc = "handler"]
    ELSE [g EXCEPT !.botToken = t, !.pc = "verify", !.verifyCalls = @ + 1]

\* chat.ts lines 16-18: next() of the rate limiter runs the token gate and,
\* when that passes the request on, the bot verifier up to its fetch; there
\* is no await in between
Downstream(g, t, bt) ==
    IF g.pc # "token" THEN g
    ELSE LET h == TokenGate(g, t)
         IN  IF h.pc = "bot" THEN BotGate(h, bt) ELSE h

\* a rate limiter that answers 429 when the store fails
RateCatchRejects(g) == [g EXCEPT !.failed = TRUE, !.pc = "done", !.status = 429]

\* rateLimit.ts lines 67-71: a store call threw; the request is passed on
RateCatch(g) == [g EXCEPT !.failed = TRUE, !.nexts = @ + 1, !.pc = "token"]

\* rateLimit.ts line 44 with the limit itself still admitted
RateLimitedAbove(c) == c > RATE_LIMIT_REQUESTS

\* rateLimit.ts line 44: count >= config.RATE_LIMIT_REQUESTS
RateLimited(c) == c >= RATE_LIMIT_REQUESTS

\* rateLimit.ts lines 40-52: the count read (a missing key reads as 0) is
\* either at the limit, and the request answered 429, or below
RateChecked(g, c) ==
    IF RateLimited(c)
    THEN [g EXCEPT !.read = c, !.pc = "done", !.status = 429]
    ELSE [g EXCEPT !.read = c, !.pc = "rl_incr"]

\* rateLimit.ts lines 40-52: redis.get and the check
RateGet(r) ==
    /\ gate[r].pc = "rl_get"
    /\ \E o \in Outcomes, t \in Tokens, bt \in BotTokens :
         gate' = SetGate(r,
            LET c == bucket[gate[r].ip].count
                g == [gate[r] EXCEPT !.atLimit = c >= RATE_LIMIT_REQUESTS]
            IN  IF o = "fail" THEN Downstream(RateCatch(g), t, bt)
                ELSE RateChecked(g, c))
    /\ UNCHANGED <<unitVars, envVars, budget, usageVars, sessionVars, cache, proc,
                   secret, bucket>>

\* Redis INCR: a missing key is created with value 1 and no expiry
Incremented(b) ==
    IF b.present THEN [b EXCEPT !.count = @ + 1]
    ELSE [present |-> TRUE, count |-> 1, ttl |-> -1]

\* rateLimit.ts lines 62-66: the headers are set and the request passed on
RatePass(g, newCount) ==
    [g EXCEPT !.remaining = RATE_LIMIT_REQUESTS - newCount,
              !.nexts = @ + 1, !.pc = "token"]

\* rateLimit.ts lines 57-66: only the first increment of a key goes on to
\* set the expiry
RateCounted(g, newCount) ==
    IF newCount = 1 THEN [g EXCEPT !.pc = "rl_expire"]
    ELSE RatePass(g, newCount)

\* rateLimit.ts line 55: redis.incr(key)
RateIncr(r) ==
    /\ gate[r].pc = "rl_incr"
    /\ \E o \in Outcomes, t \in Tokens, bt \in BotTokens :
         IF o = "fail"
         THEN /\ gate' = SetGate(r, Downstream(RateCatch(gate[r]), t, bt))
              /\ UNCHANGED bucket
         ELSE LET b == Incremented(bucket[gate[r].ip])
              IN  /\ bucket' = [bucket EXCEPT ![gate[r].ip] = b]
                  /\ gate' = SetGate(r,
                        Downstream(RateCounted([gate[r] EXCEPT !.wrote = TRUE],
                                               b.count), t, bt))
    /\ UNCHANGED <<unitVars, envVars, budget, usageVars, sessionVars, cache, proc, secret>>

\* Redis EXPIRE: sets the time to live of an existing key
Expiring(b) == IF b.present THEN [b EXCEPT !.ttl = WindowSeconds] ELSE b

\* rateLimit.ts line 59: redis.expire(key, window) after the first increment
RateExpire(r) ==
    /\ gate[r].pc = "rl_expire"
    /\ \E o \in Outcomes, t \in Tokens, bt \in BotTokens :
         IF o = "fail"
         THEN /\ gate' = SetGate(r, Downstream(RateCatch(gate[r]), t, bt))
              /\ UNCHANGED bucket
         ELSE /\ bucket' = [bucket EXCEPT ![gate[r].ip] = Expiring(@)]
              /\ gate' = SetGate(r, Downstream(RatePass(gate[r], 1), t, bt))
    /\ UNCHANGED <<unitVars, envVars, budget, usageVars, sessionVars, cache, proc, secret>>

\* the answers of the verification endpoint; the call itself may fail
Verdicts == {"success", "failure"} \cup (IF faults THEN {"throw"} ELSE {})

\* a bot verifier that passes a request on whatever the verdict
BotVerifyOpen(r) ==
    /\ gate[r].pc = "verify"
    /\ \E v \in Verdicts :
         gate' = SetGate(r, [gate[r] EXCEPT !.verdict = v, !.pc = "handler"])
    /\ UNCHANGED <<unitVars, envVars, budget, usageVars, sessionVars, cache, proc,
                   secret, bucket>>

\* index.ts lines 514-557: success passes the request to the chat
\* handler, another verdict is answered 403, a failed call 500
BotVerify(r) ==
    /\ gate[r].pc = "verify"
    /\ \E v \in Verdicts :
         gate' = SetGate(r,
            IF v = "success"
            THEN [gate[r] EXCEPT !.verdict = v, !.pc = "handler"]
            ELSE IF v = "failure"
            THEN [gate[r] EXCEPT !.verdict = v, !.pc = "done", !.status = 403]
            ELSE [gate[r] EXCEPT !.verdict = v, !.pc = "done", !.status = 500])
    /\ UNCHANGED <<unitVars, envVars, budget, usageVars, sessionVars, cache, proc,
                   secret, bucket>>

\* the response is complete (the chat handler's part is ChatStart onward)
GateRetire(r) ==
    /\ gate[r].pc \in {"handler", "done"}
    /\ gate' = SetGate(r, IdleGate)
    /\ UNCHANGED <<unitVars, envVars, budget, usageVars, sessionVars, cache, proc,
                   secret, bucket>>

\* one second passes in the store: a key whose time to live ends is deleted
Aged(b) ==
    IF ~b.present \/ b.ttl = -1 THEN b
    ELSE IF b.ttl = 1 THEN NoBucket
    ELSE [b EXCEPT !.ttl = @ - 1]

TickSecond ==
    /\ \E ip \in Ips : bucket[ip].present /\ bucket[ip].ttl # -1
    /\ bucket' = [ip \in Ips |-> Aged(bucket[ip])]
    /\ UNCHANGED <<unitVars, envVars, budget, usageVars, sessionVars, cache, proc,
                   secret, gate>>

(***************************************************************************)
(* The cache service on text (services/cache.ts).  A text is a sequence of *)
(* characters; the alphabet has a lower-case and an upper-case letter, a   *)
(* second letter, a punctuation mark and the space.                        *)
(***************************************************************************)

Chars == {"a", "A", "b", "!", " "}

\* longest question
MaxLen == 3

Texts == UNION {[1..n -> Chars] : n \in 0..MaxLen}

\* String.prototype.toLowerCase
LowerChar(c) == IF c = "A" THEN "a" ELSE c

ToLowerCase(t) == [i \in 1..Len(t) |-> LowerChar(t[i])]

\* \s of the regular expressions
IsSpace(c) == c = " "

\* \w of the regular expressions: letters, digits and the underscore
IsWord(c) == c \in {"a", "A", "b"}

RECURSIVE TrimStart(_)
TrimStart(t) ==
    IF t # <<>> /\ IsSpace(Head(t)) THEN TrimStart(Tail(t)) ELSE t

RECURSIVE TrimEnd(_)
TrimEnd(t) ==
    IF t # <<>> /\ IsSpace(t[Len(t)])
    THEN TrimEnd(SubSeq(t, 1, Len(t) - 1)) ELSE t

\* String.prototype.trim
Trim(t) == TrimEnd(TrimStart(t))

(***************************************************************************)
(* getClientIp (middleware/rateLimit.ts), which uses trim as well          *)
(***************************************************************************)

\* if (header): a header that is there and not the empty string
Truthy(h) == h.present /\ h.value # <<>>

\* split(',')[0]: the characters before the first comma
RECURSIVE FirstEntry(_)
FirstEntry(v) ==
    IF v = <<>> \/ Head(v) = "," THEN <<>>
    ELSE <<Head(v)>> \o FirstEntry(Tail(v))

Unknown == <<"unknown">>

\* rateLimit.ts lines 17-32
getClientIp(h) ==
    IF Truthy(h.cf) THEN h.cf.value
    ELSE IF Truthy(h.xff)
    THEN (IF FirstEntry(h.xff.value) # <<>>
          THEN Trim(FirstEntry(h.xff.value)) ELSE Unknown)
    ELSE IF Truthy(h.xr) THEN h.xr.value
    ELSE Unknown

\* rateLimit.ts lines 35-36: the key of the request's bucket
ClientKey(r) ==
    /\ gate[r].pc = "headers"
    /\ gate' = SetGate(r, [gate[r] EXCEPT !.pc = "keyed",
                                          !.key = getClientIp(gate[r].headers)])
    /\ UNCHANGED <<unitVars, envVars, budget, usageVars, sessionVars, cache,
                   proc, secret, bucket>>

(***************************************************************************)
(* normalizeQuestion of the cache service, continued                       *)
(***************************************************************************)

KeepsChar(c) == IsWord(c) \/ IsSpace(c)

\* replace(/[^\w\s]/g, '')
RemovePunctuation(t) == SelectSeq(t, KeepsChar)

\* replace(/\s+/g, ' ')
RECURSIVE CollapseSpaces(_)
CollapseSpaces(t) ==
    IF t = <<>> THEN <<>>
    ELSE IF IsSpace(Head(t))
    THEN <<" ">> \o CollapseSpaces(TrimStart(Tail(t)))
    ELSE <<Head(t)>> \o CollapseSpaces(Tail(t))

\* cache.ts lines 19-25
NormalizeQuestion(t) ==
    CollapseSpaces(RemovePunctuation(Trim(ToLowerCase(t))))

\* cache.ts lines 30-34: the hash of the normalized question, in hex.  The
\* hash is a function of the normalized text alone; on the texts of the
\* model it is taken to be free of collisions.
HashQuestion(t) == <<"hash", NormalizeQuestion(t)>>

\* the response cached in this module's runs
Answer == <<"b", " ", "a">>

NoText == <<"none">>

IdleTxt ==
    [pc |-> "idle", x |-> <<>>, y |-> <<>>, nx |-> NoText, ny |-> NoText,
     nnx |-> NoText, keys |-> {}, got |-> NoText]

\* normalizeQuestion applied to both questions
TextNormalize ==
    /\ txt.pc = "start"
    /\ txt' = [txt EXCEPT !.pc = "normalized",
                          !.nx = NormalizeQuestion(txt.x),
                          !.ny = NormalizeQuestion(txt.y)]
    /\ UNCHANGED <<tool, inbox, client, gateVars, envVars, budget, usageVars, sessionVars,
                   cache, proc>>

\* normalizeQuestion applied to its own result
TextNormalizeAgain ==
    /\ txt.pc = "normalized"
    /\ txt' = [txt EXCEPT !.pc = "renormalized",
                          !.nnx = NormalizeQuestion(txt.nx)]
    /\ UNCHANGED <<tool, inbox, client, gateVars, envVars, budget, usageVars, sessionVars,
                   cache, proc>>

\* cache.ts lines 42-45: cacheService.set(x, Answer)
TextCacheSet ==
    /\ txt.pc = "renormalized"
    /\ txt' = [txt EXCEPT !.pc = "stored", !.keys = @ \cup {HashQuestion(txt.x)}]
    /\ UNCHANGED <<tool, inbox, client, gateVars, envVars, budget, usageVars, sessionVars,
                   cache, proc>>

\* cache.ts lines 37-40: cacheService.get(y); a missing key reads as null
TextCacheGet ==
    /\ txt.pc = "stored"
    /\ txt' = [txt EXCEPT !.pc = "read",
                          !.got = IF HashQuestion(txt.y) \in txt.keys
                                  THEN Answer ELSE <<"null">>]
    /\ UNCHANGED <<tool, inbox, client, gateVars, envVars, budget, usageVars, sessionVars,
                   cache, proc>>

(***************************************************************************)
(* Tool calls.  validateToolCall and its schemas are utils/toolValidation  *)
(* (index.ts lines 92-235).  The service that assembles a tool call from   *)
(* the deltas of the upstream stream is not among the sources; it is       *)
(* modelled from section 4.7, steps 4 and 5, of the specification.  The    *)
(* handler's part is the forwarding of each call the service yields        *)
(* (chat.ts lines 141-146).                                                *)
(***************************************************************************)

\* the longest reason and the longest intent (index.ts lines 100 and 108)
ReasonMax == 500

\* The characters of an argument value: a letter, the space, a complete
\* HTML tag, and "xxx" for a run of ReasonMax letters x.
ArgChars == {"a", " ", "<b>", "xxx"}

\* most characters of an argument value (a run counts as one)
MaxArg == 3

ArgTexts == UNION {[1..n -> ArgChars] : n \in 0..MaxArg}

\* String.prototype.length
RECURSIVE Length(_)
Length(t) ==
    IF t = <<>> THEN 0
    ELSE (IF Head(t) = "xxx" THEN ReasonMax ELSE 1) + Length(Tail(t))

NotTag(c) == c # "<b>"

\* lines 119-148, on a string: the null bytes, control characters and
\* script blocks have no character in ArgChars; the tags are removed, the
\* whitespace is collapsed and the ends are trimmed
SanitizeParamValue(v) == Trim(CollapseSpaces(SelectSeq(v, NotTag)))

\* lines 138-144, on the arguments object: every value is sanitized.  An
\* arguments object is a set of <<key, value>> pairs.
SanitizeArguments(args) == {<<p[1], SanitizeParamValue(p[2])>> : p \in args}

Has(args, k) == \E p \in args : p[1] = k

Get(args, k) == (CHOOSE p \in args : p[1] = k)[2]

Failure == [success |-> FALSE, data |-> {}]

\* the reason schema without the upper limit
ContactMeNoMax(args) ==
    IF /\ Has(args, "reason")
       /\ Length(Get(args, "reason")) >= 1
       /\ Length(Trim(Get(args, "reason"))) > 0
    THEN [success |-> TRUE, data |-> {<<"reason", Get(args, "reason")>>}]
    ELSE Failure

\* lines 96-102: reason is a string of 1 to 500 characters that is not
\* blank; the object schema drops every other key
ContactMeParamsSchema(args) ==
    IF /\ Has(args, "reason")
       /\ Length(Get(args, "reason")) >= 1
       /\ Length(Get(args, "reason")) <= ReasonMax
       /\ Length(Trim(Get(args, "reason"))) > 0
    THEN [success |-> TRUE, data |-> {<<"reason", Get(args, "reason")>>}]
    ELSE Failure

\* lines 104-110
VisitLinkedInParamsSchema(args) ==
    IF /\ Has(args, "intent")
       /\ Length(Get(args, "intent")) >= 1
       /\ Length(Get(args, "intent")) <= ReasonMax
       /\ Length(Trim(Get(args, "intent"))) > 0
    THEN [success |-> TRUE, data |-> {<<"intent", Get(args, "intent")>>}]
    ELSE Failure

\* lines 112-114: format is 'pdf' when given, and 'pdf' when not
DownloadResumeParamsSchema(args) ==
    IF ~Has(args, "format") \/ Get(args, "format") = <<"pdf">>
    THEN [success |-> TRUE, data |-> {<<"format", <<"pdf">>>>}]
    ELSE Failure

\* lines 157-161
validToolNames == {"contact_me", "visit_linkedin", "download_resume"}

NoCall == [id |-> "", name |-> "", arguments |-> {}]

\* lines 153-235
ValidateToolCall(toolCall) ==
    IF toolCall.name \notin validToolNames
    THEN [isValid |-> FALSE, sanitized |-> NoCall]
    ELSE LET sanitizedArgs == SanitizeArguments(toolCall.arguments)
             result ==
                 CASE toolCall.name = "contact_me" ->
                          ContactMeParamsSchema(sanitizedArgs)
                   [] toolCall.name = "visit_linkedin" ->
                          VisitLinkedInParamsSchema(sanitizedArgs)
                   [] toolCall.name = "download_resume" ->
                          DownloadResumeParamsSchema(sanitizedArgs)
         IN  IF result.success
             THEN [isValid |-> TRUE,
                   sanitized |-> [toolCall EXCEPT !.arguments = result.data]]
             ELSE [isValid |-> FALSE, sanitized |-> NoCall]

\* the arguments the model may send with contact_me
ContactMeArguments ==
    {{}, {<<"intent", <<"a">>>>}} \cup {{<<"reason", v>>} : v \in ArgTexts}

\* the tool calls the upstream model may make
ToolCalls ==
    {[id |-> "call_1", name |-> "contact_me", arguments |-> a] :
        a \in ContactMeArguments}
    \cup {[id |-> "call_1", name |-> "visit_linkedin", arguments |-> a] :
            a \in {{}, {<<"intent", <<"a">>>>}, {<<"intent", <<" ">>>>}}}
    \cup {[id |-> "call_1", name |-> "download_resume", arguments |-> a] :
            a \in {{}, {<<"format", <<"pdf">>>>}, {<<"format", <<"doc">>>>}}}
    \cup {[id |-> "call_1", name |-> "run_shell", arguments |-> {}]}

\* a second call of the same response, sent whole under the next index
OtherCall == [id |-> "call_2", name |-> "download_resume", arguments |-> {}]

\* The JSON text of an arguments object, one token for each brace and key
\* and one for each character of the value.
ArgsJson(args) ==
    IF args = {} THEN <<"{", "}">>
    ELSE LET p == CHOOSE p \in args : TRUE
         IN  <<"{", p[1]>> \o p[2] \o <<"}">>

Keys == {"reason", "intent", "format"}

\* JSON.parse succeeds on a complete object only
JsonOk(buf) ==
    /\ Len(buf) >= 2
    /\ buf[1] = "{"
    /\ buf[Len(buf)] = "}"
    /\ Len(buf) > 2 => buf[2] \in Keys
    /\ \A i \in 2..(Len(buf) - 1) : buf[i] \notin {"{", "}"}
    /\ \A i \in 3..(Len(buf) - 1) : buf[i] \notin Keys

JsonParse(buf) ==
    IF Len(buf) = 2 THEN {}
    ELSE {<<buf[2], SubSeq(buf, 3, Len(buf) - 1)>>}

\* the indices of the tool calls of one response
Indices == {0, 1}

NoEntry == [seen |-> FALSE, id |-> "", name |-> "", argsBuffer |-> <<>>]

EmptyAcc == [i \in Indices |-> NoEntry]

\* a fragment's arguments replace the buffer
AccumulateLast(acc, f) ==
    [acc EXCEPT ![f.index] =
        [seen |-> TRUE,
         id |-> IF f.id # "" THEN f.id ELSE @.id,
         name |-> IF f.name # "" THEN f.name ELSE @.name,
         argsBuffer |-> f.arguments]]

\* step 4: a fragment appends to the buffer of its index and fills in the
\* id and the name once known
Accumulate(acc, f) ==
    [acc EXCEPT ![f.index] =
        [seen |-> TRUE,
         id |-> IF f.id # "" THEN f.id ELSE @.id,
         name |-> IF f.name # "" THEN f.name ELSE @.name,
         argsBuffer |-> @.argsBuffer \o f.arguments]]

IsSeen(e) == e.seen

\* the accumulated entries, by index
Entries(acc) == SelectSeq(<<acc[0], acc[1]>>, IsSeen)

\* step 5: every buffer parses
AllParse(acc) ==
    \A i \in 1..Len(Entries(acc)) : JsonOk(Entries(acc)[i].argsBuffer)

\* step 5: the ToolCall constructed from an entry
Constructed(e) ==
    [id |-> e.id, name |-> e.name, arguments |-> JsonParse(e.argsBuffer)]

IsAccepted(e) == ValidateToolCall(Constructed(e)).isValid

AcceptedCall(e) == ValidateToolCall(Constructed(e)).sanitized

\* every constructed call is yielded as it is
EmittedUnchecked(acc) ==
    [i \in 1..Len(Entries(acc)) |-> Constructed(Entries(acc)[i])]

\* step 5: the calls the validator accepts are yielded, one for each
Emitted(acc) ==
    LET ok == SelectSeq(Entries(acc), IsAccepted)
    IN  [i \in 1..Len(ok) |-> AcceptedCall(ok[i])]

\* the whole call in one fragment
Whole(c, i) ==
    [index |-> i, id |-> c.id, name |-> c.name,
     arguments |-> ArgsJson(c.arguments)]

ToolEvent(e, c) == [event |-> e, call |-> c]

IdleTool ==
    [pc |-> "idle", call |-> NoCall, rest |-> <<>>, idSent |-> FALSE,
     nameSent |-> FALSE, frags |-> 0, other |-> "none", texted |-> FALSE,
     acc |-> EmptyAcc, ended |-> FALSE,
     verdict |-> [isValid |-> FALSE, sanitized |-> NoCall],
     pending |-> <<>>, events |-> <<>>]

\* chat.ts lines 135-140: a content delta is forwarded as a message event
ToolContent ==
    /\ tool.pc = "streaming"
    /\ ~tool.texted
    /\ tool' = [tool EXCEPT !.texted = TRUE,
                            !.events = Append(@, ToolEvent("message", NoCall))]
    /\ UNCHANGED <<txt, inbox, client, gateVars, envVars, budget, usageVars, sessionVars,
                   cache, proc>>

\* step 4: the next fragment of the call: some of the argument text not
\* yet sent, and the id and the name unless sent before
ToolDelta ==
    /\ tool.pc = "streaming"
    /\ \E k \in 0..Len(tool.rest), sendId, sendName \in BOOLEAN :
         /\ k > 0 \/ sendId \/ sendName
         /\ sendId => ~tool.idSent
         /\ sendName => ~tool.nameSent
         /\ tool' = [tool EXCEPT
                !.rest = SubSeq(@, k + 1, Len(@)),
                !.idSent = @ \/ sendId,
                !.nameSent = @ \/ sendName,
                !.frags = @ + 1,
                !.acc = Accumulate(@,
                    [index |-> 0,
                     id |-> IF sendId THEN tool.call.id ELSE "",
                     name |-> IF sendName THEN tool.call.name ELSE "",
                     arguments |-> SubSeq(tool.rest, 1, k)])]
    /\ UNCHANGED <<txt, inbox, client, gateVars, envVars, budget, usageVars, sessionVars,
                   cache, proc>>

\* step 4: the fragment of the second call, between those of the first
ToolOtherDelta ==
    /\ tool.pc = "streaming"
    /\ tool.other = "pending"
    /\ tool' = [tool EXCEPT !.other = "sent",
                            !.acc = Accumulate(@, Whole(OtherCall, 1))]
    /\ UNCHANGED <<txt, inbox, client, gateVars, envVars, budget, usageVars, sessionVars,
                   cache, proc>>

\* step 5: the upstream stream ends with every call sent in full; the
\* buffers are parsed, the calls validated and the accepted ones yielded;
\* verdict keeps what validateToolCall returned for the first call.
\* A buffer that does not parse is an internal error, which the handler
\* reports in its catch (chat.ts lines 168-176).
ToolStreamEnd ==
    /\ tool.pc = "streaming"
    /\ tool.rest = <<>> /\ tool.idSent /\ tool.nameSent
    /\ tool.other # "pending"
    /\ tool' = IF AllParse(tool.acc)
               THEN [tool EXCEPT
                        !.pc = "yielding", !.ended = TRUE,
                        !.verdict = ValidateToolCall(Constructed(tool.acc[0])),
                        !.pending = Emitted(tool.acc)]
               ELSE [tool EXCEPT !.pc = "failed", !.ended = TRUE,
                                 !.events = Append(@, ToolEvent("error", NoCall))]
    /\ UNCHANGED <<txt, inbox, client, gateVars, envVars, budget, usageVars, sessionVars,
                   cache, proc>>

\* chat.ts lines 141-146: a yielded call is forwarded as a tool_call event
ToolForward ==
    /\ tool.pc = "yielding"
    /\ tool.pending # <<>>
    /\ tool' = [tool EXCEPT
                  !.pending = Tail(@),
                  !.events = Append(@, ToolEvent("tool_call", Head(tool.pending)))]
    /\ UNCHANGED <<txt, inbox, client, gateVars, envVars, budget, usageVars, sessionVars,
                   cache, proc>>

\* chat.ts lines 164-167: the done event
ToolDone ==
    /\ tool.pc = "yielding"
    /\ tool.pending = <<>>
    /\ tool' = [tool EXCEPT !.pc = "done",
                            !.events = Append(@, ToolEvent("done", NoCall))]
    /\ UNCHANGED <<txt, inbox, client, gateVars, envVars, budget, usageVars, sessionVars,
                   cache, proc>>

(***************************************************************************)
(* The validation of an inbound message, utils/validation (index.ts lines  *)
(* 236-400), on the messages of the model.                                 *)
(***************************************************************************)

\* lines 248-270: the tags are removed, the whitespace is collapsed and the
\* ends are trimmed; the messages have no null byte, control character or
\* script block
SanitizeInput(m) == Trim(CollapseSpaces(SelectSeq(m, NotTag)))

\* the pieces that end in a letter
LetterPieces == {"a", "damn", "zzz", "ABC", "www"}

\* lines 278-281: a character repeated more than ten times in a row
HasRepeatedChars(m) == \E i \in 1..Len(m) : m[i] = "zzz"

\* lines 284-288: a word of more than 100 characters; n is the length of
\* the word in progress
RECURSIVE HasLongWord(_, _)
HasLongWord(m, n) ==
    IF m = <<>> THEN n > 100
    ELSE IF IsSpace(Head(m)) THEN n > 100 \/ HasLongWord(Tail(m), 0)
    ELSE HasLongWord(Tail(m), n + PieceLength(Head(m)))

IsCapitals(c) == c = "ABC"

NotSpace(c) == ~IsSpace(c)

\* lines 292-296: more than 20 characters, over 70% of the characters
\* that are not whitespace in upper case
HasExcessiveCapitals(m) ==
    /\ MessageLength(m) > 20
    /\ 10 * MessageLength(SelectSeq(m, IsCapitals))
         > 7 * MessageLength(SelectSeq(m, NotSpace))

\* lines 299-327: of the SQL and script signatures the messages can hold
\* only the call of eval
HasInjectionSignature(m) == \E i \in 1..Len(m) : m[i] = "eval("

\* lines 276-330: the error, or "null" for a valid message
ValidateMessageContent(m) ==
    IF HasRepeatedChars(m) THEN "repeated characters"
    ELSE IF HasLongWord(m, 0) THEN "long words"
    ELSE IF HasExcessiveCapitals(m) THEN "capital letters"
    ELSE IF HasInjectionSignature(m) THEN "malicious content"
    ELSE "null"

\* lines 335-360: a listed word at a word boundary
ContainsInappropriateContent(m) ==
    \E i \in 1..Len(m) :
        m[i] = "damn" /\ (i = 1 \/ m[i - 1] \notin LetterPieces)

\* lines 365-400
ValidateAndSanitizeMessage(m) ==
    LET sanitized == SanitizeInput(m)
    IN  IF MessageLength(sanitized) = 0
        THEN [isValid |-> FALSE, error |-> "empty after sanitization"]
        ELSE IF ValidateMessageContent(sanitized) # "null"
        THEN [isValid |-> FALSE, error |-> ValidateMessageContent(sanitized)]
        ELSE IF ContainsInappropriateContent(sanitized)
        THEN [isValid |-> FALSE, error |-> "inappropriate language"]
        ELSE [isValid |-> TRUE, error |-> "null"]

(***************************************************************************)
(* Initial states                                                          *)
(***************************************************************************)

NoHist ==
    [done |-> FALSE, from |-> NoInstant, to |-> NoInstant,
     zeroWrites |-> 0, incsSince |-> 0]

FirstOfMonth(t) == [y |-> t.y, m |-> t.m, d |-> 1, tod |-> 0]

\* The usage keys of a store in use on day t: nothing yet; a count left
\* from last month, with the reset due; or this month's count, short of the
\* limit, one below it or at it, with the reset set for next month.
UsageStates(t) ==
    {<<0, Unset>>, <<MAX_MONTHLY_CONVERSATIONS, Stored(FirstOfMonth(t))>>}
    \cup {<<c, Stored(FirstOfFollowingMonth(t))>> :
                c \in {0, MAX_MONTHLY_CONVERSATIONS - 1,
                       MAX_MONTHLY_CONVERSATIONS}}

\* a session record that n served turns have left in the store
SessionAfter(n) ==
    [present |-> TRUE, messageCount |-> n, createdAt |-> 0,
     lastActivityAt |-> 0, ttlSetAt |-> 0]

(***************************************************************************)
(* The client: useChat.sendMessage (hooks/useChat.ts) and the token of     *)
(* the verification widget (main.tsx)                                      *)
(***************************************************************************)

\* tokens the verification widget mints in one run
MaxTokens == 3

\* sendMessage calls in one run
MaxSends == 2

\* what the server answers to one POST /api/chat, and which stage answered:
\* chat.ts lines 15-17 run the rate limiter, the API token gate and the bot
\* verifier in this order before the handler
Response(s, by) == [status |-> s, by |-> by]

NoResponse == Response(0, "none")

ServerResponses(apiToken) ==
    {Response(429, "rateLimit")}
    \cup (IF ~TokenOk(apiToken)
          THEN {Response(401, "apiToken")}
          ELSE {Response(403, "bot"), Response(500, "bot"),
                Response(400, "handler"), Response(429, "handler"),
                Response(500, "handler"), Response(200, "handler")})

\* one SSE event as the client reads it: its event line, whether its data
\* starts with "{", and the tool name in the data of a tool_call
ClientEvent(e, json, name) == [event |-> e, json |-> json, name |-> name]

TextEvent == ClientEvent("message", FALSE, "")

DoneEvent == ClientEvent("done", FALSE, "")

ToolCallEvent(n) == ClientEvent("tool_call", TRUE, n)

\* the event streams of chat.ts: text, a tool call alone, text and a tool
\* call, the session limit, an error
EventStreams ==
    {<<TextEvent, DoneEvent>>,
     <<ClientEvent("session_limit", TRUE, ""), DoneEvent>>,
     <<ClientEvent("error", TRUE, "")>>}
    \cup {<<ToolCallEvent(n), DoneEvent>> : n \in validToolNames}
    \cup {<<TextEvent, ToolCallEvent(n), DoneEvent>> : n \in validToolNames}

\* useChat.ts lines 44-54: the text shown for a tool call without text
getDefaultToolMessage(toolCall) ==
    IF toolCall = "" THEN <<>>
    ELSE IF toolCall = "contact_me" THEN <<"get in touch">>
    ELSE IF toolCall = "visit_linkedin" THEN <<"view profile">>
    ELSE <<>>

\* lines 165 and 183: assistantContent || getDefaultToolMessage(...)
ContentOr(assistantContent, toolCall) ==
    IF assistantContent # <<>> THEN assistantContent
    ELSE getDefaultToolMessage(toolCall)

IdleClient ==
    [pc |-> "idle", apiToken |-> "good", widget |-> FALSE, sends |-> 0,
     token |-> 0, ready |-> FALSE, minted |-> 0, held |-> 0,
     isRetry |-> FALSE, sent |-> <<>>, answers |-> <<>>, error |-> FALSE,
     events |-> <<>>, assistantContent |-> <<>>, toolCall |-> "",
     isSessionLimit |-> FALSE, shown |-> FALSE, content |-> <<>>,
     output |-> <<>>]

ClientUnchanged ==
    UNCHANGED <<txt, tool, inbox, gateVars, envVars, budget, usageVars,
                sessionVars, cache, proc>>

\* main.tsx lines 86-94: the widget hands over a token
WidgetCallback ==
    /\ client.widget /\ ~client.ready
    /\ client.minted < MaxTokens
    /\ client' = [client EXCEPT !.minted = @ + 1, !.token = client.minted + 1,
                                !.ready = TRUE]
    /\ ClientUnchanged

\* main.tsx lines 100-106: the token expires; the widget is reset
WidgetExpired ==
    /\ client.widget /\ client.ready
    /\ client.minted < MaxTokens
    /\ client' = [client EXCEPT !.token = 0, !.ready = FALSE]
    /\ ClientUnchanged

\* main.tsx lines 121-128
resetTurnstile(c) ==
    IF c.widget THEN [c EXCEPT !.token = 0, !.ready = FALSE] ELSE c

\* lines 204-208 and 210: the catch of sendMessage
ClientFail(c) == [c EXCEPT !.pc = "returned", !.error = TRUE, !.events = <<>>]

\* lines 64-71 and 201: sendMessage is called
SendMessage ==
    /\ client.pc = "idle"
    /\ client.sends < MaxSends
    /\ client' = [client EXCEPT !.pc = "token", !.sends = @ + 1,
                     !.isRetry = FALSE, !.sent = <<>>, !.answers = <<>>,
                     !.error = FALSE, !.assistantContent = <<>>,
                     !.toolCall = "", !.isSessionLimit = FALSE,
                     !.shown = FALSE, !.content = <<>>, !.output = <<>>]
    /\ ClientUnchanged

\* line 74 and main.tsx lines 131-149: the token is handed over once it is
\* ready
WaitForToken ==
    /\ client.pc = "token"
    /\ client.ready /\ client.token # 0
    /\ client' = [client EXCEPT !.pc = "fetch", !.held = client.token]
    /\ ClientUnchanged

\* main.tsx lines 139-142: no token within ten seconds
WaitForTokenTimeout ==
    /\ client.pc = "token"
    /\ ~client.ready
    /\ client' = ClientFail(client)
    /\ ClientUnchanged

\* lines 76-112: the request is sent and answered
ClientFetch ==
    /\ client.pc = "fetch"
    /\ \E a \in ServerResponses(client.apiToken) \cup {NoResponse},
          es \in EventStreams :
         LET c == [client EXCEPT !.sent = Append(@, client.held),
                                 !.answers = Append(@, a)]
         IN  client' =
               IF a = NoResponse THEN ClientFail(c)
               ELSE IF a.status = 200
               THEN [c EXCEPT !.pc = "read", !.events = es, !.shown = TRUE,
                              !.output = es]
               ELSE IF a.status \in {401, 403} /\ ~c.isRetry
               THEN [resetTurnstile(c) EXCEPT !.pc = "retry_wait"]
               ELSE ClientFail(c)
    /\ ClientUnchanged

\* lines 93-95: half a second later the request is attempted again
ClientRetry ==
    /\ client.pc = "retry_wait"
    /\ client' = [client EXCEPT !.pc = "token", !.isRetry = TRUE]
    /\ ClientUnchanged

\* lines 130-176: one event of the stream.  currentEvent starts as message
\* in every chunk read, so the data line of an event whose event line came
\* in the chunk before is handled as message data.
ReadEvent(c, e, split) ==
    LET currentEvent == IF split THEN "message" ELSE e.event
    IN  IF e.event = "done" THEN c
        ELSE IF currentEvent = "tool_call"
        THEN [c EXCEPT !.toolCall = e.name]
        ELSE IF currentEvent = "session_limit"
        THEN [c EXCEPT !.assistantContent = <<"limit">>,
                       !.isSessionLimit = TRUE]
        ELSE IF currentEvent = "message" /\ ~e.json
        THEN [c EXCEPT !.assistantContent = Append(@, "text"),
                       !.content = ContentOr(Append(c.assistantContent, "text"),
                                             c.toolCall)]
        ELSE c

ClientRead ==
    /\ client.pc = "read"
    /\ client.events # <<>>
    /\ \E split \in BOOLEAN :
         client' = ReadEvent([client EXCEPT !.events = Tail(@)],
                             Head(client.events), split)
    /\ ClientUnchanged

\* lines 180-194: the final update of the assistant message
ClientFinish ==
    /\ client.pc = "read"
    /\ client.events = <<>>
    /\ client' = [resetTurnstile(client) EXCEPT
                     !.pc = "returned",
                     !.content = ContentOr(client.assistantContent,
                                           client.toolCall)]
    /\ ClientUnchanged

\* lines 209-211: sendMessage returns
ClientReturn ==
    /\ client.pc = "returned"
    /\ client' = [client EXCEPT !.pc = "idle"]
    /\ ClientUnchanged

Quiet ==
    /\ client = IdleClient
    /\ ticks = 0
    /\ usageHist = NoHist
    /\ proc = [r \in Procs |-> IdleProc]
    /\ gate = [r \in Procs |-> IdleGate]
    /\ bucket = [ip \in Ips |-> NoBucket]

NoUnits ==
    /\ txt = IdleTxt
    /\ tool = IdleTool
    /\ inbox = {PlainQuestion}

FreshSessions ==
    /\ session = [s \in Sids |-> NoSession]
    /\ served = [s \in Sids |-> 0]

EmptyCache == cache = [q \in Questions |-> <<>>]

(***************************************************************************)
(* SpecDate: GET /status requests, one at a time, on every day of the      *)
(* calendar.                                                               *)
(***************************************************************************)

\* number of requests a run of SpecDate accepts
DateRequests == 2

InitDate ==
    /\ Quiet /\ NoUnits /\ FreshSessions /\ EmptyCache
    /\ now \in Clock
    /\ production \in BOOLEAN
    /\ secret = TRUE
    /\ faults = FALSE
    /\ budget = DateRequests
    /\ \E u \in UsageStates(now) : usageCount = u[1] /\ resetAt = u[2]

NextDate ==
    \/ StatusStart(1)
    \/ StatusTimeout(1)
    \/ UsageGetReset(1)
    \/ UsageSetCount(1)
    \/ UsageSetReset(1)
    \/ UsageGetCount(1)
    \/ Retire(1)
    \/ TickInstant
    \/ TickDay

SpecDate == InitDate /\ [][NextDate]_vars

\* C7 (as claimed): whenever checkAndResetMonthly has reset the quota, the
\* reset_at it stored is 00:00:00.000 of day 1 of the calendar month that
\* immediately follows the date of the reset.
C7_ResetAtIsFirstOfFollowingMonth ==
    usageHist.done => usageHist.to = FirstOfFollowingMonth(usageHist.from)

(***************************************************************************)
(* SpecSeq: chat turns, one at a time, starting with a fresh store and no  *)
(* failing call.                                                           *)
(***************************************************************************)

\* requests a run of SpecSeq accepts beyond MAX_MESSAGES_PER_SESSION
ExtraRequests == 2

MidMonth == [y |-> 2024, m |-> 1, d |-> 15, tod |-> 1]

InitSeq ==
    /\ Quiet /\ NoUnits /\ FreshSessions /\ EmptyCache
    /\ now = MidMonth
    /\ production = TRUE
    /\ secret = TRUE
    /\ faults = FALSE
    /\ budget = MAX_MESSAGES_PER_SESSION + ExtraRequests
    /\ \E u \in UsageStates(now) : usageCount = u[1] /\ resetAt = u[2]

ChatStep(r) ==
    \/ ChatStart(r)
    \/ SessionCheck(r)
    \/ CacheGet(r)
    \/ IncrementGet(r)
    \/ IncrementCreate(r)
    \/ IncrementSet(r)
    \/ HitStream(r)
    \/ UsageGetReset(r)
    \/ UsageSetCount(r)
    \/ UsageSetReset(r)
    \/ UsageGetCount(r)
    \/ AiCall(r)
    \/ AiChunk(r)
    \/ AiEnd(r)
    \/ CacheSet(r)
    \/ UsageIncrement(r)
    \/ Retire(r)

NextSeq == ChatStep(1)

SpecSeq == InitSeq /\ [][NextSeq]_vars

Limited(p) == p.events = <<Event("session_limit", <<>>), Event("done", <<>>)>>

\* C3: on a fresh session ID, with requests served one after the other,
\* the stored messageCount is 30 once exactly MAX_MESSAGES_PER_SESSION turns
\* were served; a valid request that then arrives on that ID is answered
\* with session_limit followed by done and makes no upstream call, so no
\* 31st turn is served; and session_limit is sent only then.
C3_ThirtyTurnsExhaustSession ==
    \A s \in Sids :
        /\ served[s] <= MAX_MESSAGES_PER_SESSION
        /\ (proc[1].pc \in {"idle", "done"}
                /\ served[s] = MAX_MESSAGES_PER_SESSION)
              => (session[s].present
                    /\ session[s].messageCount = MAX_MESSAGES_PER_SESSION)
        /\ (proc[1].pc = "done" /\ proc[1].body = "valid" /\ proc[1].sid = s)
              => IF served[s] = MAX_MESSAGES_PER_SESSION /\ ~proc[1].turn
                 THEN Limited(proc[1]) /\ proc[1].calls = 0
                 ELSE ~Limited(proc[1])

C3_Witness ==
    /\ proc[1].pc = "done" /\ proc[1].sid = 1 /\ Limited(proc[1])
    /\ served[1] = MAX_MESSAGES_PER_SESSION
    /\ session[1].messageCount = MAX_MESSAGES_PER_SESSION

(***************************************************************************)
(* SpecChat: concurrent chat turns on a store in use, with failing calls.  *)
(***************************************************************************)

\* number of requests a run of SpecChat accepts
MaxRequests == 2

InitChat ==
    /\ Quiet /\ NoUnits
    /\ now = MidMonth
    /\ production = TRUE
    /\ secret = TRUE
    /\ faults = TRUE
    /\ budget = MaxRequests
    /\ \E u \in UsageStates(now) : usageCount = u[1] /\ resetAt = u[2]
    /\ \E n \in {-1, MAX_MESSAGES_PER_SESSION - 1, MAX_MESSAGES_PER_SESSION} :
          /\ session = [s \in Sids |-> IF n < 0 THEN NoSession
                                        ELSE SessionAfter(n)]
          /\ served = [s \in Sids |-> IF n < 0 THEN 0 ELSE n]
    /\ \E c \in {<<>>} \cup Fragments :
          cache = [q \in Questions |-> IF q \in inbox THEN c ELSE <<>>]

NextChat == \E r \in Procs : ChatStep(r)

SpecChat == InitChat /\ [][NextChat]_vars

Rejected(p) == p.status = 429 /\ p.events = <<>> /\ p.calls = 0

\* C2 (as claimed): with the monthly count at or above the limit and no
\* reset due, every valid chat request whose question is not cached is
\* rejected with 429, without an SSE event and without an upstream call.
\* Stated for the first request of a run, whose store calls all succeed.
C2_QuotaRejectsEveryUncachedRequest ==
    \A r \in Procs :
        (/\ proc[r].pc = "done" /\ proc[r].kind = "chat"
         /\ proc[r].body = "valid"
         /\ budget = MaxRequests - 1
         /\ proc[r].status # 500
         /\ cache[proc[r].q] = <<>>
         /\ usageHist.zeroWrites = 0 /\ proc[r].incs = 0
         /\ ~ResetDue(resetAt, now)
         /\ usageCount >= MAX_MONTHLY_CONVERSATIONS)
        => Rejected(proc[r])

\* C2 (amended): a chat request whose quota check reads a count at or above
\* MAX_MONTHLY_CONVERSATIONS is rejected with 429 before any SSE event and
\* any upstream call.
C2_QuotaCheckRejects ==
    \A r \in Procs :
        (proc[r].kind = "chat" /\ proc[r].seen >= MAX_MONTHLY_CONVERSATIONS)
        => (proc[r].pc = "done" /\ Rejected(proc[r]))

C2_Witness ==
    \E r \in Procs :
        /\ proc[r].kind = "chat" /\ proc[r].seen >= MAX_MONTHLY_CONVERSATIONS
        /\ proc[r].status = 429

HasEvent(p, e) == \E i \in 1..Len(p.events) : p.events[i].event = e

C5_MessageCountNeverDecreases ==
    [][\A s \in Sids :
          session[s].present
          => session'[s].messageCount >= session[s].messageCount]_vars

\* C6 (as claimed): once the count was reset for the month, no later reset
\* of the same month erases an increment: the count is the number of
\* increments since the first reset.
C6_NoIncrementErased ==
    usageHist.zeroWrites >= 1 => usageCount = usageHist.incsSince

(***************************************************************************)
(* SpecGate: concurrent requests in the middleware chain, with failing     *)
(* store calls and the clock of the store running.                         *)
(***************************************************************************)

\* number of requests a run of SpecGate accepts
GateRequests == 4

InitGate ==
    /\ Quiet /\ NoUnits /\ FreshSessions /\ EmptyCache
    /\ now = MidMonth
    /\ production \in BOOLEAN
    /\ secret \in BOOLEAN
    /\ faults = TRUE
    /\ budget = GateRequests
    /\ usageCount = 0 /\ resetAt = Unset

GateStep(r) ==
    \/ GateStart(r)
    \/ RateGet(r)
    \/ RateIncr(r)
    \/ RateExpire(r)
    \/ BotVerify(r)
    \/ GateRetire(r)

NextGate == (\E r \in Procs : GateStep(r)) \/ TickSecond

SpecGate == InitGate /\ [][NextGate]_vars

\* C1 (as claimed): the chat handler is reached only by a request that was
\* under the rate limit, carried the configured X-API-Token and passed bot
\* verification.
C1_HandlerOnlyAfterAllChecks ==
    \A r \in Procs :
        gate[r].pc = "handler"
        => (~gate[r].atLimit /\ gate[r].token = "good"
              /\ gate[r].verdict = "success")

\* C1 (amended): the chat handler is reached only by a request that was
\* under the rate limit or whose rate-limit store call failed, that carried
\* the configured X-API-Token, and that passed bot verification or, with
\* verification out of force (not production, no secret key), carried some
\* X-Turnstile-Token.  The earliest failing check decides the status: 429
\* is sent before the token is looked at, 401 and 403 only after the rate
\* limiter passed the request on, 403 only for a request with the right
\* token; the verification call is made at most once and only after the
\* first two checks passed.
C1_ChainOrder ==
    \A r \in Procs :
        /\ gate[r].pc = "handler"
            => /\ ~gate[r].atLimit \/ gate[r].failed
               /\ gate[r].nexts = 1
               /\ gate[r].token = "good"
               /\ gate[r].botToken = "some"
               /\ \/ gate[r].verdict = "success"
                  \/ gate[r].skipped /\ ~VerificationInForce
        /\ gate[r].status = 429
            => /\ gate[r].nexts = 0 /\ gate[r].token = "unread"
               /\ gate[r].verifyCalls = 0
        /\ gate[r].status = 401
            => /\ gate[r].nexts = 1 /\ gate[r].verifyCalls = 0
               /\ gate[r].token # "good" \/ gate[r].botToken = "none"
        /\ gate[r].status = 403
            => /\ gate[r].nexts = 1 /\ gate[r].token = "good"
               /\ gate[r].verdict = "failure"
        /\ gate[r].verifyCalls <= 1
        /\ gate[r].verifyCalls = 1
            => /\ gate[r].nexts = 1 /\ gate[r].token = "good"
               /\ ~gate[r].atLimit \/ gate[r].failed

C1_Witness ==
    \E r, t \in Procs :
        /\ gate[r].pc = "handler" /\ gate[r].verdict = "success"
        /\ ~gate[r].failed /\ gate[r].read < RATE_LIMIT_REQUESTS
        /\ gate[t].status = 429

\* C8: when the rate limiter reads a bucket count at or above
\* RATE_LIMIT_REQUESTS the request is answered 429 in that step, the
\* bucket (count and time to live) is left as it was, and the request is
\* not passed to the next middleware; a request answered 429 has written
\* nothing to the store.
C8_RejectionLeavesBucket ==
    /\ [][\A r \in Procs :
            (/\ gate[r].pc = "rl_get" /\ gate'[r].pc # "rl_get"
             /\ ~gate'[r].failed
             /\ bucket[gate[r].ip].count >= RATE_LIMIT_REQUESTS)
            => (/\ gate'[r].pc = "done" /\ gate'[r].status = 429
                /\ gate'[r].nexts = 0
                /\ bucket' = bucket)]_vars
    /\ [](\A r \in Procs :
            gate[r].status = 429
            => (/\ gate[r].read >= RATE_LIMIT_REQUESTS /\ ~gate[r].wrote
                /\ gate[r].nexts = 0 /\ gate[r].pc = "done"))

C8_Witness ==
    \E r \in Procs :
        /\ gate[r].status = 429 /\ gate[r].read >= RATE_LIMIT_REQUESTS
        /\ bucket[gate[r].ip].count >= RATE_LIMIT_REQUESTS
        /\ bucket[gate[r].ip].ttl > 0

\* C9 (as claimed): every bucket that holds a count carries a time to
\* live, set by the request that made its first increment, except while
\* that request is between its increment and its expire call.
C9_EveryBucketExpires ==
    \A ip \in Ips :
        (bucket[ip].present
            /\ ~\E r \in Procs : gate[r].pc = "rl_expire" /\ gate[r].ip = ip)
        => bucket[ip].ttl > 0

\* C10: a request with a failed rate-limit store call is passed on to the
\* next middleware exactly once and is not answered 429; no request is
\* passed on twice.
C10_FailOpen ==
    \A r \in Procs :
        /\ gate[r].nexts <= 1
        /\ gate[r].failed
            => (gate[r].nexts = 1 /\ gate[r].status # 429
                  /\ gate[r].pc \notin {"rl_get", "rl_incr", "rl_expire"})

C10_Witness ==
    \E r \in Procs :
        /\ gate[r].failed /\ gate[r].atLimit /\ gate[r].pc = "handler"

\* C11: with bot verification in force (production, or a secret key is
\* configured) a request reaches the chat handler only with the verdict
\* success; a request whose verdict is not success is answered 403, and one
\* whose verification call failed 500, and neither reaches the chat handler,
\* the only code that touches the cache, the sessions, the usage count and
\* the upstream model.
C11_FailedVerificationBlocked ==
    \A r \in Procs :
        /\ (VerificationInForce /\ gate[r].pc = "handler")
              => gate[r].verdict = "success"
        /\ gate[r].verdict = "failure"
              => (gate[r].pc = "done" /\ gate[r].status = 403)
        /\ gate[r].verdict = "throw"
              => (gate[r].pc = "done" /\ gate[r].status = 500)

C11_Witness ==
    \E r \in Procs :
        /\ VerificationInForce /\ gate[r].verdict = "failure"
        /\ gate[r].status = 403 /\ gate[r].token = "good"

(***************************************************************************)
(* The wire protocol of POST /chat, checked under SpecChat.                *)
(***************************************************************************)

\* the data of the message events of a stream, concatenated
RECURSIVE MessageText(_)
MessageText(es) ==
    IF es = <<>> THEN <<>>
    ELSE (IF Head(es).event = "message" THEN Head(es).data ELSE <<>>)
            \o MessageText(Tail(es))

\* C12 (as claimed): a request answered from the cache has made no
\* upstream call, its stream ends with done, and the data of its message
\* events concatenates to exactly the cached response text.
C12_CacheHitReplaysCachedText ==
    \A r \in Procs :
        (proc[r].pc = "done" /\ proc[r].hit /\ proc[r].turn)
        => /\ proc[r].calls = 0
           /\ proc[r].events[Len(proc[r].events)] = Event("done", <<>>)
           /\ MessageText(proc[r].events) = proc[r].full

\* number of events e in a stream
RECURSIVE CountEvent(_, _)
CountEvent(es, e) ==
    IF es = <<>> THEN 0
    ELSE (IF Head(es).event = e THEN 1 ELSE 0) + CountEvent(Tail(es), e)

\* C15: in every stream done is sent at most once and is the last event,
\* and a stream with an error event has no done.
C15_DoneIsTerminal ==
    \A r \in Procs :
        LET es == proc[r].events
        IN  /\ CountEvent(es, "done") <= 1
            /\ \A i \in 1..Len(es) : es[i].event = "done" => i = Len(es)
            /\ HasEvent(proc[r], "error") => ~HasEvent(proc[r], "done")

C15_Witness ==
    \E r, t \in Procs :
        /\ proc[r].pc = "done" /\ HasEvent(proc[r], "message")
        /\ HasEvent(proc[r], "tool_call") /\ HasEvent(proc[r], "done")
        /\ proc[t].pc = "done" /\ HasEvent(proc[t], "message")
        /\ HasEvent(proc[t], "error")

\* C16: a request that failed before its stream was opened is answered
\* with its status code (400, 429, 500) and has sent no SSE event; once the
\* stream is open the status stays 200, and a failure is reported by an
\* error event: every finished stream ends with done or with error.
C16_ErrorsBeforeAndAfterStreamStart ==
    /\ [](\A r \in Procs :
            /\ proc[r].status \notin {0, 200} => proc[r].events = <<>>
            /\ proc[r].events # <<>> => proc[r].status = 200
            /\ (proc[r].pc = "done" /\ proc[r].status = 200)
                  => LET last == proc[r].events[Len(proc[r].events)].event
                     IN  /\ proc[r].events # <<>>
                         /\ last \in {"done", "error"}
                         /\ last = "done" <=> (proc[r].turn \/ Limited(proc[r])))
    /\ [][\A r \in Procs :
            (proc[r].status = 200 /\ proc'[r].pc # "idle")
            => proc'[r].status = 200]_vars

C16_Witness ==
    \E r, t \in Procs :
        /\ proc[r].pc = "done" /\ proc[r].status = 500
        /\ proc[r].body = "valid" /\ proc[r].events = <<>>
        /\ proc[t].pc = "done" /\ proc[t].status = 200
        /\ HasEvent(proc[t], "error")

(***************************************************************************)
(* SpecText: the cache service applied to every pair of questions.         *)
(***************************************************************************)

InitText ==
    /\ Quiet /\ FreshSessions /\ EmptyCache
    /\ now = MidMonth
    /\ production = TRUE
    /\ secret = TRUE
    /\ faults = FALSE
    /\ budget = 0
    /\ usageCount = 0 /\ resetAt = Unset
    /\ tool = IdleTool
    /\ inbox = {}
    /\ \E x, y \in Texts : txt = [IdleTxt EXCEPT !.pc = "start", !.x = x, !.y = y]

NextText ==
    \/ TextNormalize
    \/ TextNormalizeAgain
    \/ TextCacheSet
    \/ TextCacheGet

SpecText == InitText /\ [][NextText]_vars

\* C13 (as claimed): normalizing a normalized question changes nothing.
C13_NormalizeIdempotent ==
    txt.pc \in {"renormalized", "stored", "read"} => txt.nnx = txt.nx

\* what is left of a question without its letter case, its punctuation and
\* its surrounding whitespace
Essence(t) == Trim(RemovePunctuation(ToLowerCase(t)))

\* C14 (as claimed): two questions that differ only in letter case,
\* surrounding whitespace or punctuation normalize to the same string, and
\* a response stored under one is returned for the other.
C14_SameQuestionSameKey ==
    Essence(txt.x) = Essence(txt.y)
    => /\ txt.pc # "start" => txt.nx = txt.ny
       /\ txt.pc = "read" => txt.got = Answer

(***************************************************************************)
(* Tool calls of one response, checked under SpecTool: one call of the     *)
(* upstream model, cut into fragments in every way, with or without a      *)
(* second call between its fragments.                                      *)
(***************************************************************************)

InitTool ==
    /\ Quiet /\ FreshSessions /\ EmptyCache
    /\ now = MidMonth
    /\ production = TRUE
    /\ secret = TRUE
    /\ faults = FALSE
    /\ budget = 0
    /\ usageCount = 0 /\ resetAt = Unset
    /\ txt = IdleTxt
    /\ inbox = {}
    /\ \E c \in ToolCalls, o \in {"none", "pending"} :
         tool = [IdleTool EXCEPT !.pc = "streaming", !.call = c,
                                 !.rest = ArgsJson(c.arguments), !.other = o]

NextTool ==
    \/ ToolContent
    \/ ToolDelta
    \/ ToolOtherDelta
    \/ ToolStreamEnd
    \/ ToolForward
    \/ ToolDone

SpecTool == InitTool /\ [][NextTool]_vars

\* the calls of the tool_call events that carry the given id
ForwardedCalls(id) ==
    LET mine == SelectSeq(tool.events,
                          LAMBDA e : e.event = "tool_call" /\ e.call.id = id)
    IN  [i \in 1..Len(mine) |-> mine[i].call]

\* C17: however one tool call is cut into fragments of one index, the
\* assembly never fails, and once the response is complete the tool_call
\* events of the call are those of the call sent in a single fragment:
\* exactly one event with the same id, name and arguments for a call the
\* validator accepts.
C17_ReconstructionIgnoresChunkBoundaries ==
    /\ tool.pc # "failed"
    /\ tool.pc = "done" =>
         /\ ForwardedCalls(tool.call.id)
              = Emitted(Accumulate(EmptyAcc, Whole(tool.call, 0)))
         /\ ValidateToolCall(tool.call).isValid =>
              /\ Len(ForwardedCalls(tool.call.id)) = 1
              /\ ForwardedCalls(tool.call.id)[1].id = tool.call.id
              /\ ForwardedCalls(tool.call.id)[1].name = tool.call.name

\* an accepted call that arrived in four fragments, the second call
\* between them, has been forwarded once
C17_Witness ==
    /\ tool.pc = "done"
    /\ tool.frags >= 4
    /\ tool.other = "sent"
    /\ tool.call.name = "contact_me"
    /\ Len(ForwardedCalls(tool.call.id)) = 1

\* the calls of the response in progress
SentCalls == {tool.call} \cup (IF tool.other = "sent" THEN {OtherCall} ELSE {})

\* C18: a tool_call event is sent only after the upstream stream has ended;
\* the call it carries is what the validator returns for a call of the
\* response whose arguments were parsed in full; no call has two events,
\* and once the response is complete a call has an event exactly if the
\* validator accepts it.
C18_ToolCallsAfterStreamEndAndValidated ==
    /\ (\E i \in 1..Len(tool.events) : tool.events[i].event = "tool_call")
         => tool.ended
    /\ \A i \in 1..Len(tool.events) :
         tool.events[i].event = "tool_call" =>
            \E c \in SentCalls :
                /\ ValidateToolCall(c).isValid
                /\ tool.events[i].call = ValidateToolCall(c).sanitized
    /\ \A c \in SentCalls :
         /\ Len(ForwardedCalls(c.id)) <= 1
         /\ tool.pc = "done" =>
              (Len(ForwardedCalls(c.id)) = 1 <=> ValidateToolCall(c).isValid)

\* a response with text and two calls is complete: the call the validator
\* rejects has no event, the other has one
C18_Witness ==
    /\ tool.pc = "done"
    /\ tool.texted
    /\ tool.other = "sent"
    /\ tool.call.name = "contact_me"
    /\ ~ValidateToolCall(tool.call).isValid
    /\ ForwardedCalls(tool.call.id) = <<>>
    /\ Len(ForwardedCalls(OtherCall.id)) = 1

\* the reason of the call of the response, as the model sent it
Reason == Get(tool.call.arguments, "reason")

\* the response is over and the validator was given a contact_me call
ContactMeValidated ==
    tool.pc \in {"yielding", "done"} /\ tool.call.name = "contact_me"

NotForwarded ==
    /\ ~tool.verdict.isValid
    /\ tool.verdict.sanitized = NoCall
    /\ ForwardedCalls(tool.call.id) = <<>>
    /\ \A i \in 1..Len(tool.pending) : tool.pending[i].id # tool.call.id

\* C19 (as claimed): a contact_me call whose reason is missing, empty,
\* whitespace-only or longer than 500 characters is rejected by
\* validateToolCall and is never forwarded as a tool_call event.
C19_BadReasonRejected ==
    (/\ ContactMeValidated
     /\ \/ ~Has(tool.call.arguments, "reason")
        \/ Length(Reason) = 0
        \/ Trim(Reason) = <<>>
        \/ Length(Reason) > ReasonMax)
    => NotForwarded

\* C19 (amended): a contact_me call whose reason is missing, or is empty
\* or longer than 500 characters once sanitized, is rejected by
\* validateToolCall and is never forwarded as a tool_call event.
C19_BadSanitizedReasonRejected ==
    (/\ ContactMeValidated
     /\ \/ ~Has(tool.call.arguments, "reason")
        \/ Length(SanitizeParamValue(Reason)) = 0
        \/ Length(SanitizeParamValue(Reason)) > ReasonMax)
    => NotForwarded

\* the response is complete, and a call whose sanitized reason has more
\* than 500 characters was not forwarded
C19_Witness ==
    /\ tool.pc = "done"
    /\ tool.call.name = "contact_me"
    /\ Has(tool.call.arguments, "reason")
    /\ Length(SanitizeParamValue(Reason)) > ReasonMax
    /\ NotForwarded

(***************************************************************************)
(* POST /chat with every message of the model, one request in a run,       *)
(* checked under SpecMsg.                                                  *)
(***************************************************************************)

InitMsg ==
    /\ Quiet
    /\ txt = IdleTxt /\ tool = IdleTool
    /\ inbox = Questions
    /\ now = MidMonth
    /\ production = TRUE
    /\ secret = TRUE
    /\ faults = FALSE
    /\ budget = 1
    /\ \E u \in UsageStates(now) : usageCount = u[1] /\ resetAt = u[2]
    /\ \E n \in {-1, MAX_MESSAGES_PER_SESSION - 1, MAX_MESSAGES_PER_SESSION} :
          /\ session = [s \in Sids |-> IF n < 0 THEN NoSession
                                        ELSE SessionAfter(n)]
          /\ served = [s \in Sids |-> IF n < 0 THEN 0 ELSE n]
    /\ \E c \in {<<>>} \cup Fragments : cache = [q \in Questions |-> c]

SpecMsg == InitMsg /\ [][NextChat]_vars

\* the request carries a message that validateAndSanitizeMessage rejects
CarriesRejectedMessage(p) ==
    /\ p.kind = "chat"
    /\ p.body = "valid"
    /\ ~ValidateAndSanitizeMessage(Message(p.q)).isValid

\* C20 (as claimed): a request whose message the validator rejects is
\* answered with an error before any stream is opened: it reads and writes
\* no cache entry, changes no session and no usage count, makes no upstream
\* call and sends no SSE event.
C20_RejectedMessageStopsBeforeAnything ==
    \A r \in Procs :
        CarriesRejectedMessage(proc[r]) =>
            /\ proc[r].pc = "done"
            /\ proc[r].status = 400
            /\ proc[r].events = <<>>
            /\ proc[r].calls = 0
            /\ proc[r].incs = 0
            /\ ~proc[r].turn

(***************************************************************************)
(* Malformed bodies, checked under SpecChat.                               *)
(***************************************************************************)

\* C21 (as claimed): a chat request whose body is malformed, be it no JSON
\* or a JSON whose message is missing, empty or too long, is answered with
\* status 400 and no stream is opened.
C21_MalformedBodyIs400 ==
    \A r \in Procs :
        (/\ proc[r].kind = "chat"
         /\ proc[r].body \in {"unparseable", "invalid"})
        => /\ proc[r].pc = "done"
           /\ proc[r].status = 400
           /\ proc[r].events = <<>>

(***************************************************************************)
(* The lifetime of a session, checked under SpecAge: requests served one   *)
(* after the other on one session ID while the session clock runs.         *)
(***************************************************************************)

\* requests of one run
AgeRequests == 3

InitAge ==
    /\ Quiet /\ NoUnits /\ FreshSessions
    /\ now = MidMonth
    /\ production = TRUE
    /\ secret = TRUE
    /\ faults = FALSE
    /\ budget = AgeRequests
    /\ \E u \in UsageStates(now) : usageCount = u[1] /\ resetAt = u[2]
    /\ \E c \in {<<>>} \cup Fragments :
          cache = [q \in Questions |-> IF q \in inbox THEN c ELSE <<>>]

NextAge ==
    \/ ChatStep(1)
    \/ SessionClock

SpecAge == InitAge /\ [][NextAge]_vars

\* C22 (as claimed): the TTL of a session record is set when the record is
\* created; the write of a later turn, which increments messageCount and
\* updates lastActivityAt, leaves the TTL as it was.
C22_TurnKeepsSessionTtl ==
    [][\A s \in Sids :
          (/\ session[s].present /\ session'[s].present
           /\ session[s].messageCount >= 1
           /\ session'[s].messageCount = session[s].messageCount + 1)
          => session'[s].ttlSetAt = session[s].ttlSetAt]_vars

\* the age of a session record at the present tick
Age(s) == ticks - s.createdAt

\* C23 (as claimed): when the session check finds a record whose age has
\* reached the absolute cap, the request ends there with status 410, without
\* an SSE event, a cache lookup, an upstream call or any bookkeeping.
C23_AgedSessionIsRejected ==
    [][\A r \in Procs :
          (/\ proc[r].pc = "s_check" /\ proc'[r].pc # "s_check"
           /\ session[proc[r].sid].present
           /\ Age(session[proc[r].sid]) >= MAX_SESSION_AGE_MS)
          => /\ proc'[r].pc = "done"
             /\ proc'[r].status = 410
             /\ proc'[r].events = <<>>]_vars

(***************************************************************************)
(* GET /status with store calls that may fail or never settle, checked     *)
(* under SpecStatus.  The timer of withTimeout fires once its delay has    *)
(* passed, whatever the store does: the deadline is weakly fair, the store *)
(* calls are not.                                                          *)
(***************************************************************************)

\* requests of one run
StatusRequests == 2

InitStatus ==
    /\ Quiet /\ NoUnits /\ FreshSessions /\ EmptyCache
    /\ now = MidMonth
    /\ production \in BOOLEAN
    /\ secret = TRUE
    /\ faults = TRUE
    /\ budget = StatusRequests
    /\ \E u \in UsageStates(now) : usageCount = u[1] /\ resetAt = u[2]

NextStatus ==
    \/ StatusStart(1)
    \/ StatusTimeout(1)
    \/ UsageGetReset(1)
    \/ UsageSetCount(1)
    \/ UsageSetReset(1)
    \/ UsageGetCount(1)
    \/ Retire(1)

SpecStatus ==
    InitStatus /\ [][NextStatus]_vars /\ WF_vars(StatusTimeout(1))

\* the answer of the catch block (status.ts lines 32-33)
DefaultAvailability == IF production THEN "unavailable" ELSE "available"

\* C24: GET /status always answers.  The answer is given once; it is the
\* result of isWithinLimit when the quota check completes before the
\* deadline, and otherwise, on a failed store call or at the deadline,
\* unavailable in production and available in any other environment.
C24_StatusAlwaysAnswers ==
    /\ [][\A r \in Procs :
            (/\ proc[r].kind = "status" /\ proc'[r].kind = "status"
             /\ proc[r].reply = "none" /\ proc'[r].reply # "none")
            => IF proc[r].pc = "u_get_count" /\ proc'[r].seen # -1
               THEN proc'[r].reply = IF proc'[r].seen < MAX_MONTHLY_CONVERSATIONS
                                     THEN "available" ELSE "unavailable"
               ELSE proc'[r].reply = DefaultAvailability]_vars
    /\ [][\A r \in Procs :
            (/\ proc[r].kind = "status" /\ proc'[r].kind = "status"
             /\ proc[r].reply # "none")
            => proc'[r].reply = proc[r].reply]_vars
    /\ [](\A r \in Procs :
            (proc[r].kind = "status" /\ proc[r].pc = "done")
            => proc[r].reply # "none")
    /\ (proc[1].kind = "status") ~> (proc[1].reply # "none")

\* in production the deadline has answered unavailable while the quota
\* check is still waiting for the store
C24_Witness ==
    /\ production
    /\ proc[1].kind = "status"
    /\ proc[1].pc \in UsagePcs
    /\ proc[1].reply = "unavailable"


(***************************************************************************)
(* POST /api/chat with a client that may close the connection              *)
(***************************************************************************)

\* requests in one run of SpecCancel
CancelRequests == 2

InitCancel ==
    /\ Quiet /\ NoUnits /\ FreshSessions
    /\ now = MidMonth
    /\ production = TRUE
    /\ secret = TRUE
    /\ faults = TRUE
    /\ budget = CancelRequests
    /\ \E u \in UsageStates(now) : usageCount = u[1] /\ resetAt = u[2]
    /\ cache = [q \in Questions |-> <<>>]

NextCancel == ChatStep(1) \/ Disconnect(1)

SpecCancel == InitCancel /\ [][NextCancel]_vars

\* a step of the for await loop that takes the next chunk of the upstream
\* stream
PullsDelta(r) ==
    /\ proc[r].pc = "ai_stream"
    /\ proc[r].stream # <<>>
    /\ proc'[r].pc = "ai_stream"
    /\ proc'[r].stream = Tail(proc[r].stream)

\* C25: once the client has disconnected during the forwarding of the model
\* stream, no further chunk is taken from the upstream stream and no
\* further event is written.
C25_DisconnectStopsConsuming ==
    [][\A r \in Procs :
          proc[r].gone =>
              /\ ~PullsDelta(r)
              /\ proc'[r].events = proc[r].events \/ proc'[r].pc = "idle"]_vars


(***************************************************************************)
(* The client alone, with a server that may give any of its answers,       *)
(* checked under SpecClient.                                               *)
(***************************************************************************)

InitClient ==
    /\ ticks = 0
    /\ usageHist = NoHist
    /\ proc = [r \in Procs |-> IdleProc]
    /\ gate = [r \in Procs |-> IdleGate]
    /\ bucket = [ip \in Ips |-> NoBucket]
    /\ NoUnits /\ FreshSessions /\ EmptyCache
    /\ now = MidMonth
    /\ production = TRUE
    /\ secret = TRUE
    /\ faults = FALSE
    /\ budget = 0
    /\ usageCount = 0 /\ resetAt = Unset
    /\ \E t \in {"good", "bad"}, w \in BOOLEAN :
         client = [IdleClient EXCEPT !.apiToken = t, !.widget = w]

NextClient ==
    \/ WidgetCallback
    \/ WidgetExpired
    \/ SendMessage
    \/ WaitForToken
    \/ WaitForTokenTimeout
    \/ ClientFetch
    \/ ClientRetry
    \/ ClientRead
    \/ ClientFinish
    \/ ClientReturn

SpecClient == InitClient /\ [][NextClient]_vars

\* C26: one sendMessage call sends at most two requests; the second one
\* follows a first one that the bot verifier rejected and carries a token
\* minted after the first; after any other failure, and after a failure of
\* the second request, nothing more is sent.
C26_OneRetryAfterBotRejection ==
    /\ Len(client.sent) <= 2
    /\ Len(client.sent) = 2 =>
          /\ client.answers[1].by = "bot"
          /\ client.answers[1].status \in {401, 403}
          /\ client.sent[2] > client.sent[1]

\* C27: a response with a tool call and no text leaves a non-empty
\* assistant message, whatever the tool.
C27_ToolCallAloneHasText ==
    (/\ client.pc = "returned" /\ ~client.error
     /\ client.toolCall \in validToolNames
     /\ client.assistantContent = <<>>)
        => client.content # <<>>


(***************************************************************************)
(* Concurrent requests                                                     *)
(***************************************************************************)

\* C28: however the requests of one address interleave, the count in its
\* bucket never exceeds RATE_LIMIT_REQUESTS and no request is given a
\* negative X-RateLimit-Remaining.
C28_RateLimitHoldsUnderConcurrency ==
    /\ \A ip \in Ips : bucket[ip].count <= RATE_LIMIT_REQUESTS
    /\ \A r \in Procs : gate[r].remaining >= 0


\* C29: however the requests on one session interleave, the turns served on
\* it (cache hits and model turns) never exceed MAX_MESSAGES_PER_SESSION
\* while its record exists.
C29_SessionCapHoldsUnderConcurrency ==
    \A s \in Sids :
        session[s].present => served[s] <= MAX_MESSAGES_PER_SESSION


\* an upstream call that was started and is not counted yet
InFlight(r) ==
    proc[r].calls > 0 /\ proc[r].pc \in {"ai_stream", "c_set", "u_incr"}

\* C30: however the requests interleave, the upstream calls of the current
\* month (those counted in the usage key and those started and not counted
\* yet) never exceed MAX_MONTHLY_CONVERSATIONS.
C30_MonthlyCapHoldsUnderConcurrency ==
    usageCount + Cardinality({r \in Procs : InFlight(r)})
        <= MAX_MONTHLY_CONVERSATIONS


(***************************************************************************)
(* The order of the handler's steps                                        *)
(***************************************************************************)

IsPrefix(a, b) == Len(a) <= Len(b) /\ SubSeq(b, 1, Len(a)) = a

\* the writes of a model turn, in the order of chat.ts lines 150-161
ExpectedWrites(p) ==
    (IF p.full # <<>> THEN <<"cache">> ELSE <<>>)
    \o <<"usage">>
    \o (IF p.sid # 0 THEN <<"session">> ELSE <<>>)

ModelTurn(p) == p.kind = "chat" /\ ~p.hit /\ p.calls > 0

\* C31: after the upstream stream a model turn writes the cache, the usage
\* counter and the session count in this order; done is sent only after all
\* of them succeeded; when one fails no later one is made and the stream
\* ends with error, not done.
C31_WritesInOrderThenDone ==
    /\ [](\A r \in Procs :
            ModelTurn(proc[r]) =>
                /\ IsPrefix(proc[r].log, ExpectedWrites(proc[r]))
                /\ HasEvent(proc[r], "done")
                      => proc[r].log = ExpectedWrites(proc[r])
                /\ (proc[r].pc = "done"
                    /\ proc[r].log # ExpectedWrites(proc[r]))
                      => /\ proc[r].events[Len(proc[r].events)].event = "error"
                         /\ ~HasEvent(proc[r], "done"))
    /\ [][\A r \in Procs :
            (ModelTurn(proc[r]) /\ HasEvent(proc[r], "error"))
                => (proc'[r].log = proc[r].log \/ proc'[r].pc = "idle")]_vars

C31_Witness ==
    \E r, t \in Procs :
        /\ ModelTurn(proc[r]) /\ proc[r].pc = "done"
        /\ proc[r].log = <<"cache", "usage", "session">>
        /\ HasEvent(proc[r], "done")
        /\ ModelTurn(proc[t]) /\ proc[t].pc = "done"
        /\ proc[t].log = <<"cache">>
        /\ HasEvent(proc[t], "error")


\* C32: the cache is written only by a request whose upstream stream has
\* ended, with the concatenation of the text it forwarded, never with an
\* empty text; the step in which the upstream call or stream fails changes
\* neither the cache nor the usage counter nor the session record, and the
\* request writes nothing afterwards.
C32_OnlyCompleteResponsesCached ==
    /\ [](\A r \in Procs : proc[r].pc = "c_set" => proc[r].full # <<>>)
    /\ [][\A q \in Questions :
            cache'[q] # cache[q] =>
                \E r \in Procs :
                    /\ proc[r].pc = "c_set" /\ proc[r].q = q
                    /\ proc[r].stream = <<>>
                    /\ cache'[q] = MessageText(proc[r].events)
                    /\ cache'[q] # <<>>]_vars
    /\ [][\A r \in Procs :
            (proc[r].pc \in {"ai_call", "ai_stream"} /\ proc'[r].pc = "done")
                => /\ cache' = cache /\ usageCount' = usageCount
                   /\ session' = session
                   /\ proc'[r].log = <<>>
                   /\ HasEvent(proc'[r], "error")]_vars
    /\ [][\A r \in Procs :
            (ModelTurn(proc[r]) /\ proc[r].pc = "done")
                => proc'[r].pc = "idle" \/ proc'[r] = proc[r]]_vars

C32_Witness ==
    \E r, t \in Procs :
        /\ ModelTurn(proc[r]) /\ proc[r].pc = "done"
        /\ HasEvent(proc[r], "message") /\ HasEvent(proc[r], "error")
        /\ proc[r].log = <<>>
        /\ ModelTurn(proc[t]) /\ proc[t].pc = "done"
        /\ proc[t].log # <<>> /\ proc[t].log[1] = "cache"
        /\ Len(proc[t].full) = 2
        /\ cache[proc[t].q] = proc[t].full


\* C33: the handler checks the session, then the cache, then the quota.
\* The session check answers an exhausted session with session_limit
\* whatever the cache holds; the cache lookup sends a hit on to be served
\* and only a miss to the quota check; a request answered from the cache
\* never reads the usage keys, is never answered 429 and makes no upstream
\* call.
C33_SessionThenCacheThenQuota ==
    /\ [](\A r \in Procs :
            proc[r].hit =>
                /\ proc[r].pc \notin UsagePcs \cup {"ai_call", "ai_stream"}
                /\ proc[r].seen = -1 /\ proc[r].resetFrom = NoInstant
                /\ proc[r].status # 429 /\ proc[r].calls = 0)
    /\ [][\A r \in Procs :
            (proc[r].pc = "s_check" /\ proc'[r] # proc[r]) =>
                \/ proc'[r].pc = "done" /\ proc'[r].status = 500
                \/ /\ HasExceededLimit(session[proc[r].sid])
                   /\ Limited(proc'[r]) /\ proc'[r].pc = "done"
                \/ /\ ~HasExceededLimit(session[proc[r].sid])
                   /\ proc'[r].pc = "c_get"]_vars
    /\ [][\A r \in Procs :
            (proc[r].pc = "c_get" /\ proc'[r] # proc[r]) =>
                \/ proc'[r].pc = "done" /\ proc'[r].status = 500
                \/ /\ cache[proc[r].q] # <<>> /\ proc'[r].hit
                   /\ proc'[r].pc \in {"i_get", "h_stream"}
                \/ /\ cache[proc[r].q] = <<>> /\ ~proc'[r].hit
                   /\ proc'[r].pc = "u_get_reset"]_vars
    /\ [][\A r \in Procs :
            /\ (proc'[r].pc = "c_get" /\ proc[r].pc # "c_get")
                  => \/ proc[r].pc = "s_check"
                     \/ proc[r].pc = "idle" /\ proc'[r].sid = 0
            /\ (proc'[r].kind = "chat" /\ proc'[r].pc = "u_get_reset"
                /\ proc[r].pc # "u_get_reset")
                  => proc[r].pc = "c_get"]_vars

C33_Witness ==
    \E r, t \in Procs :
        /\ proc[r].hit /\ proc[r].pc = "done" /\ proc[r].turn
        /\ HasEvent(proc[r], "message") /\ HasEvent(proc[r], "done")
        /\ usageCount >= MAX_MONTHLY_CONVERSATIONS /\ ~ResetDue(resetAt, now)
        /\ proc[t].pc = "done" /\ Limited(proc[t])
        /\ cache[proc[t].q] # <<>>


\* C34: the step that answers a request with session_limit changes neither
\* the usage keys nor any session record nor the cache, and the request
\* has made no upstream call and no write of its own.
C34_SessionLimitChangesNothing ==
    /\ [](\A r \in Procs :
            Limited(proc[r]) =>
                /\ proc[r].calls = 0 /\ proc[r].incs = 0
                /\ proc[r].log = <<>> /\ ~proc[r].hit)
    /\ [][\A r \in Procs :
            (HasEvent(proc'[r], "session_limit")
             /\ ~HasEvent(proc[r], "session_limit"))
                => /\ usageCount' = usageCount /\ resetAt' = resetAt
                   /\ session' = session /\ cache' = cache
                   /\ Limited(proc'[r])]_vars

C34_Witness ==
    \E r \in Procs :
        /\ proc[r].pc = "done" /\ Limited(proc[r])
        /\ session[proc[r].sid].present
        /\ session[proc[r].sid].messageCount = MAX_MESSAGES_PER_SESSION
        /\ served[proc[r].sid] = MAX_MESSAGES_PER_SESSION


(***************************************************************************)
(* POST /api/chat, one request at a time, with every awaited call settling *)
(* (with a result or an error) and the client connected, checked under     *)
(* SpecLive.                                                               *)
(***************************************************************************)

\* requests in one run of SpecLive
LiveRequests == 2

InitLive ==
    /\ Quiet /\ NoUnits
    /\ now = MidMonth
    /\ production = TRUE
    /\ secret = TRUE
    /\ faults = TRUE
    /\ budget = LiveRequests
    /\ \E u \in UsageStates(now) : usageCount = u[1] /\ resetAt = u[2]
    /\ \E n \in {-1, MAX_MESSAGES_PER_SESSION - 1, MAX_MESSAGES_PER_SESSION} :
          /\ session = [s \in Sids |-> IF n < 0 THEN NoSession
                                        ELSE SessionAfter(n)]
          /\ served = [s \in Sids |-> IF n < 0 THEN 0 ELSE n]
    /\ \E c \in {<<>>} \cup Fragments :
          cache = [q \in Questions |-> IF q \in inbox THEN c ELSE <<>>]

NextLive == ChatStep(1)

\* the awaited call of a request in progress settles
Settles(r) == proc[r].pc \notin {"idle", "done"} /\ ChatStep(r)

SpecLive == InitLive /\ [][NextLive]_vars /\ WF_vars(Settles(1))

\* a stream that has ended with exactly one of done and error
Terminated(p) ==
    /\ p.pc = "done" /\ p.status = 200 /\ p.events # <<>>
    /\ p.events[Len(p.events)].event \in {"done", "error"}
    /\ CountEvent(p.events, "done") + CountEvent(p.events, "error") = 1

C37_NoSessionIdNoSessionState ==
    /\ [](\A r \in Procs :
            (proc[r].kind = "chat" /\ proc[r].sid = 0) =>
                /\ proc[r].pc \notin {"s_check", "i_get", "i_create", "i_set"}
                /\ ~HasEvent(proc[r], "session_limit")
                /\ \A i \in 1..Len(proc[r].log) : proc[r].log[i] # "session")
    /\ [][\A r \in Procs :
            (proc[r].kind = "chat" /\ proc[r].sid = 0
             /\ proc'[r] # proc[r])
                => session' = session /\ served' = served]_vars

C37_Witness ==
    /\ budget = 0
    /\ \A s \in Sids : ~session[s].present /\ served[s] = 0
    /\ proc[1].kind = "chat" /\ proc[1].sid = 0
    /\ proc[1].pc = "done" /\ proc[1].turn /\ proc[1].hit


\* the stream read with every event in one piece
RECURSIVE ReadWhole(_, _)
ReadWhole(c, es) ==
    IF es = <<>> THEN c
    ELSE ReadWhole(ReadEvent(c, Head(es), FALSE), Tail(es))

\* C38: whatever way the server's output is split into reads, the client
\* ends with the text, the tool call and the session-limit flag it gets
\* from the same output read in one piece.
C38_ReadsDoNotDependOnSplit ==
    (client.pc = "returned" /\ ~client.error /\ client.shown) =>
        LET whole == ReadWhole([client EXCEPT !.assistantContent = <<>>,
                                              !.toolCall = "",
                                              !.isSessionLimit = FALSE],
                               client.output)
        IN  /\ client.assistantContent = whole.assistantContent
            /\ client.toolCall = whole.toolCall
            /\ client.isSessionLimit = whole.isSessionLimit


(***************************************************************************)
(* The key of the rate limiter for every combination of the three          *)
(* headers, checked under SpecIp.                                          *)
(***************************************************************************)

HeaderValues ==
    {Absent, Header(<<>>), Header(<<"a">>), Header(<<"b", ",", "a">>),
     Header(<<" ", "b", " ", ",", "a">>), Header(<<",", "a">>)}

HeaderSets == [cf : HeaderValues, xff : HeaderValues, xr : HeaderValues]

InitIp ==
    /\ NoUnits /\ FreshSessions /\ EmptyCache
    /\ client = IdleClient
    /\ ticks = 0
    /\ usageHist = NoHist
    /\ proc = [r \in Procs |-> IdleProc]
    /\ bucket = [ip \in Ips |-> NoBucket]
    /\ now = MidMonth
    /\ production = TRUE
    /\ secret = TRUE
    /\ faults = FALSE
    /\ budget = 0
    /\ usageCount = 0 /\ resetAt = Unset
    /\ \E h \in HeaderSets, k \in {NoHeaders, [NoHeaders EXCEPT !.xr = Header(<<"a">>)]} :
         gate = [r \in Procs |->
                    [IdleGate EXCEPT !.pc = "headers",
                                     !.headers = IF r = 1 THEN h ELSE k]]

NextIp == \E r \in Procs : ClientKey(r)

SpecIp == InitIp /\ [][NextIp]_vars

\* the key as claimed, a header counting as present when it is there with
\* a value
ClaimedKey(h) ==
    IF Truthy(h.cf) THEN h.cf.value
    ELSE IF Truthy(h.xff) THEN Trim(FirstEntry(h.xff.value))
    ELSE IF Truthy(h.xr) THEN h.xr.value
    ELSE Unknown

\* C39: the key is CF-Connecting-IP if present, otherwise the trimmed first
\* entry of X-Forwarded-For, otherwise X-Real-IP, otherwise unknown; the
\* requests without any of the headers all get the key unknown.
C39_KeyByHeaderPrecedence ==
    \A r \in Procs :
        gate[r].pc = "keyed" =>
            /\ gate[r].key = ClaimedKey(gate[r].headers)
            /\ gate[r].headers = NoHeaders => gate[r].key = Unknown

====
